---- MODULE Spec2Model ----
(***************************************************************************)
(* A model of the NCAA football data ingestion engine:                     *)
(*   src/src/data_pipeline/collectors.py  NCAADataCollector                *)
(*   src/main.py                          DataIngestionPipeline            *)
(*   src/config.py                        get_config                       *)
(*                                                                         *)
(* Python values are modelled as follows.  A str is a TLA+ string, an int  *)
(* used as a query parameter is the record [int |-> n], a str used as a    *)
(* query parameter is [str |-> s].  A dict is the sequence of its          *)
(* <<key, value>> items in insertion order (keys are distinct).  None as   *)
(* a params argument is the empty sequence: the code tests `if params:`,   *)
(* which None and {} both fail.                                            *)
(***************************************************************************)
EXTENDS Integers, Sequences, FiniteSets, TLC

VARIABLES
    \* ---- cache-key computation (two requests side by side) ----
    kUrl1, kParams1, kUrl2, kParams2,   \* the two requests
    kKey1, kKey2,                       \* their cache keys once computed
    kPc                                 \* "args" -> "done"

keyVars == <<kUrl1, kParams1, kUrl2, kParams2, kKey1, kKey2, kPc>>

VARIABLES
    \* ---- the collector: limiter, cache store, upstream calls ----
    clock,        \* time.monotonic and the cache store's clock, in tenths of
                  \* a second
    numCalls,     \* RateLimitDecorator.num_calls of each decorated method
    lastReset,    \* RateLimitDecorator.last_reset of each decorated method
    cache,        \* the Redis store: key -> [data, expiresAt]
    netCount,     \* network calls per endpoint group in the window winStart..
    winStart,     \* start of the budget window netCount counts in
    issued,       \* collect calls issued per endpoint group in issuedWin..
    issuedWin,    \* start of the budget window issued counts in
    prev, last,   \* the records of the two most recent collect calls
    nCalls,       \* collect calls made so far
    nTicks,       \* time advances made so far
    wait,         \* the callers inside the limiter wrappers
    pending       \* the collect call suspended at session.get, NoCall if none

collVars == <<clock, numCalls, lastReset, cache, netCount, winStart,
              issued, issuedWin, prev, last, nCalls, nTicks, wait,
              pending>>

VARIABLES
    \* ---- observation of the upstream traffic ----
    netLog        \* per method: the times of its network calls of the last
                  \* period, time -> number of calls

obsVars == <<netLog>>

VARIABLES
    \* ---- the orchestrator (DataIngestionPipeline) ----
    run,          \* the collection method in progress
    allData,      \* run_full_ingestion: all_collected_data
    seasonIx,     \* run_full_ingestion: seasons stored in all_collected_data
    ingestPc,     \* run_full_ingestion: "idle" (not called), "loop", "season"
                  \* (awaiting the season's collection), "sleep", "done",
                  \* "summary_failed" or "aborted"
    env           \* the surroundings of the run: whether the cache store is
                  \* unreachable, and the faults that have happened so far

pipeVars == <<run, allData, seasonIx, ingestPc, env>>

vars == <<keyVars, collVars, pipeVars, obsVars>>

----------------------------------------------------------------------------
(* Bounds of the model *)

\* the largest number of query parameters of one request
MaxParams == 2

----------------------------------------------------------------------------
(* Time.  The clock and every time the model records count tenths of a     *)
(* second, the unit in which the pacing sleeps of main.py are whole        *)
(* numbers (asyncio.sleep(0.5) is 5 tenths).  The periods, the TTL and the *)
(* delays of the source are in seconds.                                    *)

TicksPerSecond == 10

\* s seconds on the model's clock
Secs(s) == s * TicksPerSecond

----------------------------------------------------------------------------
(* Python helpers *)

PyInt(n) == [int |-> n]
PyStr(s) == [str |-> s]

\* f"{v}" for an int or a str
Format(v) == IF "int" \in DOMAIN v THEN ToString(v.int) ELSE v.str

\* The query-parameter names the collectors use, in the order Python's
\* str comparison puts them (all start with a lower-case ASCII letter).
ParamOrder ==
    << "apiKey", "category", "dateFormat", "division", "gameId", "markets",
       "oddsFormat", "regions", "team", "week", "year" >>

StrRank(k) == CHOOSE i \in 1..Len(ParamOrder) : ParamOrder[i] = k

\* k1 < k2 for two parameter names
StrLess(k1, k2) == StrRank(k1) < StrRank(k2)

RECURSIVE InsertSorted(_, _)
InsertSorted(item, sorted) ==
    IF sorted = <<>> THEN <<item>>
    ELSE IF StrLess(item[1], Head(sorted)[1]) THEN <<item>> \o sorted
    ELSE <<Head(sorted)>> \o InsertSorted(item, Tail(sorted))

\* sorted(params.items()): the items by key (keys are distinct, so the
\* values are never compared)
RECURSIVE SortedItems(_)
SortedItems(params) ==
    IF params = <<>> THEN <<>>
    ELSE InsertSorted(Head(params), SortedItems(Tail(params)))

\* "&".join([f"{k}={v}" for k, v in items])
RECURSIVE JoinAmp(_)
JoinAmp(items) ==
    IF items = <<>> THEN ""
    ELSE LET kv == Head(items)[1] \o "=" \o Format(Head(items)[2])
         IN  IF Len(items) = 1 THEN kv
             ELSE kv \o "&" \o JoinAmp(Tail(items))

\* a cache key built from the items in insertion order (no sort)
CacheKeyUnsorted(url, params) ==
    IF params # <<>>
    THEN "ncaa_cache:" \o url \o "?" \o JoinAmp(params)
    ELSE "ncaa_cache:" \o url

\* a cache key that leaves the apiKey parameter out
CacheKeyNoApiKey(url, params) ==
    IF params # <<>>
    THEN "ncaa_cache:" \o url \o "?"
         \o JoinAmp(SortedItems(SelectSeq(params, LAMBDA it : it[1] # "apiKey")))
    ELSE "ncaa_cache:" \o url

\* _fetch_data, the cache key of (url, params)
CacheKey(url, params) ==
    IF params # <<>>
    THEN "ncaa_cache:" \o url \o "?" \o JoinAmp(SortedItems(params))
    ELSE "ncaa_cache:" \o url

\* self.base_endpoints
CFBD == "https://api.collegefootballdata.com"
ODDS == "https://api.the-odds-api.com/v4"

----------------------------------------------------------------------------
(* JSON values as Python holds them after response.json() / json.loads:     *)
(* None, int, str, list (a sequence) and dict (the sequence of its items).  *)

JNull     == [null |-> TRUE]
JInt(n)   == [int |-> n]
JStr(s)   == [str |-> s]
JList(xs) == [list |-> xs]
JDict(kv) == [dict |-> kv]

IsNull(v) == "null" \in DOMAIN v
IsInt(v)  == "int" \in DOMAIN v
IsStr(v)  == "str" \in DOMAIN v
IsList(v) == "list" \in DOMAIN v
IsDict(v) == "dict" \in DOMAIN v

\* bool(v), the test of `if data:`
Truthy(v) ==
    CASE IsNull(v) -> FALSE
      [] IsInt(v)  -> v.int # 0
      [] IsStr(v)  -> v.str # ""
      [] IsList(v) -> v.list # <<>>
      [] IsDict(v) -> v.dict # <<>>

\* whether len(v) is defined
HasLen(v) == IsStr(v) \/ IsList(v) \/ IsDict(v)

\* d.get(k) for a dict d: the value of the item with key k, None without one
RECURSIVE ItemsGet(_, _, _)
ItemsGet(items, k, default) ==
    IF items = <<>> THEN default
    ELSE IF Head(items)[1] = k THEN Head(items)[2]
    ELSE ItemsGet(Tail(items), k, default)

DictGet(d, k) == ItemsGet(d.dict, k, JNull)
DictGetOr(d, k, default) == ItemsGet(d.dict, k, default)

\* the keys of the items kv of a dict
ItemKeys(kv) == { kv[i][1] : i \in 1..Len(kv) }

RECURSIVE PyEq(_, _)
\* a == b of Python: two dicts are equal when they hold the same keys with
\* equal values, whatever the order of insertion; two lists when they are
\* equal element by element
PyEq(a, b) ==
    CASE IsDict(a) /\ IsDict(b) ->
             /\ ItemKeys(a.dict) = ItemKeys(b.dict)
             /\ \A k \in ItemKeys(a.dict) : PyEq(DictGet(a, k), DictGet(b, k))
      [] IsList(a) /\ IsList(b) ->
             /\ Len(a.list) = Len(b.list)
             /\ \A i \in 1..Len(a.list) : PyEq(a.list[i], b.list[i])
      [] OTHER -> a = b

\* The characters of the model's strings by code point: U+0001 .. U+005F and
\* U+0061 .. U+00FF.  (A TLA+ string cannot hold U+0060, the grave accent;
\* U+0000 and the characters beyond U+00FF are left out.)
ControlChars == "\t\n\f\r"
AsciiTo5F == " !\"#$%&'()*+,-./0123456789:;<=>?@ABCDEFGHIJKLMNOPQRSTUVWXYZ[\\]^_"
AsciiFrom61 == "abcdefghijklmnopqrstuvwxyz{|}~"
DelAndLatin1 == " ¡¢£¤¥¦§¨©ª«¬­®¯°±²³´µ¶·¸¹º»¼½¾¿ÀÁÂÃÄÅÆÇÈÉÊËÌÍÎÏÐÑÒÓÔÕÖ×ØÙÚÛÜÝÞßàáâãäåæçèéêëìíîïðñòóôõö÷øùúûüýþÿ"

\* the characters json.dumps copies unless they are the quote or the backslash
Printable ==
    { SubSeq(AsciiTo5F, i, i) : i \in 1..Len(AsciiTo5F) }
    \cup { SubSeq(AsciiFrom61, i, i) : i \in 1..Len(AsciiFrom61) }

\* ord(ch) of a one-character str
Ord(ch) ==
    LET low  == ControlChars \o AsciiTo5F
        high == AsciiFrom61 \o DelAndLatin1
    IN  IF \E i \in 1..Len(low) : SubSeq(low, i, i) = ch
        THEN CHOOSE i \in 1..Len(low) : SubSeq(low, i, i) = ch
        ELSE 96 + CHOOSE i \in 1..Len(high) : SubSeq(high, i, i) = ch

HexDigits == "0123456789abcdef"

\* '{0:04x}'.format(n)
Hex4(n) ==
    LET d(k) == SubSeq(HexDigits, ((n \div k) % 16) + 1, ((n \div k) % 16) + 1)
    IN  d(4096) \o d(256) \o d(16) \o d(1)

\* The replacement json.dumps (ensure_ascii) writes for one character of a
\* str: the quote, the backslash and \n \r \t \f \b have a two-character
\* escape, every other character outside ' '..'~' is written \uXXXX.
EscapeChar(ch) ==
    CASE ch \in Printable /\ ch # "\"" /\ ch # "\\" -> ch
      [] ch = "\"" -> "\\\""
      [] ch = "\\" -> "\\\\"
      [] ch = "\n" -> "\\n"
      [] ch = "\r" -> "\\r"
      [] ch = "\t" -> "\\t"
      [] ch = "\f" -> "\\f"
      [] ch = SubSeq(ControlChars, 8, 8) -> "\\b"
      [] OTHER -> "\\u" \o Hex4(Ord(ch))

RECURSIVE JsonEscape(_)
\* the text of a str between the quotes json.dumps writes
JsonEscape(s) ==
    IF s = "" THEN ""
    ELSE EscapeChar(SubSeq(s, 1, 1)) \o JsonEscape(SubSeq(s, 2, Len(s)))

\* json.dumps(v) with the default separators
RECURSIVE Dumps(_)
RECURSIVE DumpsList(_)
RECURSIVE DumpsItems(_)
Dumps(v) ==
    CASE IsNull(v) -> "null"
      [] IsInt(v)  -> ToString(v.int)
      [] IsStr(v)  -> "\"" \o JsonEscape(v.str) \o "\""
      [] IsList(v) -> "[" \o DumpsList(v.list) \o "]"
      [] IsDict(v) -> "{" \o DumpsItems(v.dict) \o "}"
DumpsList(xs) ==
    IF xs = <<>> THEN ""
    ELSE IF Len(xs) = 1 THEN Dumps(Head(xs))
    ELSE Dumps(Head(xs)) \o ", " \o DumpsList(Tail(xs))
DumpsItems(kv) ==
    IF kv = <<>> THEN ""
    ELSE LET one == "\"" \o JsonEscape(Head(kv)[1]) \o "\": "
                        \o Dumps(Head(kv)[2])
         IN  IF Len(kv) = 1 THEN one ELSE one \o ", " \o DumpsItems(Tail(kv))

----------------------------------------------------------------------------
(* Upstream payloads and responses *)

TeamA == JDict(<< <<"school", JStr("Alabama")>>, <<"mascot", JStr("Crimson Tide")>> >>)
TeamB == JDict(<< <<"school", JStr("Auburn")>>, <<"conference", JStr("SEC")>> >>)
GameA == JDict(<< <<"id", JInt(401)>>, <<"teams", JList(<<>>)>> >>)

TeamsPayloads == { JList(<<>>), JList(<<TeamB, TeamA>>) }
StatsPayloads == { JList(<<GameA>>), JInt(5) }

\* a game of the odds provider with two bookmakers that quote no market
GameOdds ==
    JDict(<< <<"home_team", JStr("Alabama")>>, <<"away_team", JStr("Auburn")>>,
             <<"commence_time", JStr("2024-08-31T19:30:00Z")>>,
             <<"bookmakers", JList(<< JDict(<< <<"key", JStr("bovada")>> >>),
                                      JDict(<< <<"key", JStr("fanduel")>> >>) >>)>> >>)
OddsPayloads == { JList(<<GameOdds>>) }

\* config['seasons_to_collect'] and config['current_season']
Seasons == << 2020, 2021, 2022, 2023, 2024 >>
CurrentSeason == 2024

\* player_categories of collect_player_stats_only, and of
\* collect_comprehensive_data (its first four)
AllCategories ==
    << "passing", "rushing", "receiving", "defensive", "kicking", "punting",
       "kickReturns", "puntReturns", "interceptions" >>
Categories == << "passing", "rushing", "receiving", "defensive" >>

\* range(1, 16): the weeks of the weekly team stats batch
WEEKLY_WEEKS == 15
\* range(1, 6): the weeks of the player game stats sample
SAMPLE_WEEKS == 5

\* The n-th object of the array the stats provider sends for the season,
\* week and category of a request (week 0 and category "": not asked for).
Item(season, week, category, n) ==
    JDict(<< <<"id", JInt(n)>>, <<"season", JInt(season)>>,
             <<"week", JInt(week)>>, <<"category", JStr(category)>> >>)

\* the array of two objects the stats provider sends for a request
ItemsPayload(season, week, category) ==
    JList(<< Item(season, week, category, 1), Item(season, week, category, 2) >>)

\* the arrays the stats provider sends to the requests of the orchestrator:
\* one per season, per season and week, per season and category
ItemsPayloads ==
    { ItemsPayload(Seasons[i], w, "") : i \in 1..Len(Seasons), w \in 0..WEEKLY_WEEKS }
    \cup { ItemsPayload(Seasons[i], 0, AllCategories[c]) :
              i \in 1..Len(Seasons), c \in 1..Len(AllCategories) }

\* every JSON document the model's upstream can send
JsonUniverse ==
    TeamsPayloads \cup StatsPayloads \cup OddsPayloads \cup ItemsPayloads

\* json.dumps of every document of the universe
Serialized == [v \in JsonUniverse |-> Dumps(v)]

\* json.loads(text): the document whose serialization is text
Loads(text) == CHOOSE v \in JsonUniverse : Serialized[v] = text

\* What session.get produces, delay seconds after the request was sent.
HttpResponse(status, body) ==
    [kind |-> "http", status |-> status, body |-> body, delay |-> 0]
ConnError == [kind |-> "client_error", status |-> 0, body |-> JNull, delay |-> 0]
NoResponse == [kind |-> "none", status |-> 0, body |-> JNull, delay |-> 0]
\* session.get raises an exception that is no aiohttp.ClientError
\* (asyncio.TimeoutError of the total timeout)
Timeout == [kind |-> "timeout", status |-> 0, body |-> JNull, delay |-> 0]
\* the task is cancelled (the user's interrupt) while it awaits session.get
\* or response.json(): asyncio.CancelledError is thrown into _fetch_data
Cancelled == [kind |-> "cancelled", status |-> 0, body |-> JNull, delay |-> 0]

\* the response resp arriving d seconds after the request was sent
Delayed(resp, d) == [resp EXCEPT !.delay = d]

----------------------------------------------------------------------------
(* The cache store (Redis): get and setex *)

CACHE_TTL == 3600

\* a store whose entries never expire
RedisGetNoExpiry(c, key, now) ==
    IF key \in DOMAIN c
    THEN [found |-> TRUE, data |-> c[key].data]
    ELSE [found |-> FALSE, data |-> ""]

\* redis_client.get(key): the value of a key that has not expired
RedisGet(c, key, now) ==
    IF key \in DOMAIN c /\ now < c[key].expiresAt
    THEN [found |-> TRUE, data |-> c[key].data]
    ELSE [found |-> FALSE, data |-> ""]

\* redis_client.setex(key, ttl, data) at time now: the entry expires ttl
\* seconds later
RedisSetex(c, key, ttl, data, now) ==
    (key :> [data |-> data, expiresAt |-> now + Secs(ttl)]) @@ c

----------------------------------------------------------------------------
(* _fetch_data *)

\* a failure handler with a single branch: every failure is logged as an
\* HTTP error
FailureLogOneKind(resp) == "http_error"

\* which error line a failed network call logs: the else branch of the
\* status test, `except aiohttp.ClientError`, or `except Exception`
FailureLog(resp) ==
    CASE resp.kind = "http"         -> "http_error"
      [] resp.kind = "client_error" -> "connection_error"
      [] OTHER                      -> "unexpected_error"

\* a fetch that caches whatever the upstream answers, whatever the status
FetchDataCachesAnyStatus(c, now, url, params, readErr, writeErr, resp) ==
    LET key == CacheKey(url, params)
        got == RedisGet(c, key, now)
        hit == ~readErr /\ got.found /\ got.data # ""
    IN  IF hit
        THEN [key |-> key, outcome |-> "hit", result |-> Loads(got.data),
              hit |-> TRUE, net |-> 0, attempted |-> 0, writes |-> 0, cache |-> c]
        ELSE IF resp.kind = "http"
        THEN [key |-> key,
              outcome |-> IF resp.status = 200 THEN "ok" ELSE "http_error",
              result |-> IF resp.status = 200 THEN resp.body ELSE JNull,
              hit |-> FALSE, net |-> 1, attempted |-> 1,
              writes |-> IF writeErr THEN 0 ELSE 1,
              cache |-> IF writeErr THEN c
                        ELSE RedisSetex(c, key, CACHE_TTL, Dumps(resp.body),
                                        now + Secs(resp.delay))]
        ELSE [key |-> key, outcome |-> FailureLog(resp),
              result |-> JNull, hit |-> FALSE, net |-> 1, attempted |-> 0, writes |-> 0,
              cache |-> c]

\* a fetch that never writes the response to the cache
FetchDataNoWrite(c, now, url, params, readErr, writeErr, resp) ==
    LET key == CacheKey(url, params)
        got == RedisGet(c, key, now)
        hit == ~readErr /\ got.found /\ got.data # ""
    IN  IF hit
        THEN [key |-> key, outcome |-> "hit", result |-> Loads(got.data),
              hit |-> TRUE, net |-> 0, attempted |-> 0, writes |-> 0, cache |-> c]
        ELSE IF resp.kind = "http" /\ resp.status = 200
        THEN [key |-> key, outcome |-> "ok", result |-> resp.body,
              hit |-> FALSE, net |-> 1, attempted |-> 0, writes |-> 0, cache |-> c]
        ELSE [key |-> key,
              outcome |-> FailureLog(resp),
              result |-> JNull, hit |-> FALSE, net |-> 1, attempted |-> 0, writes |-> 0,
              cache |-> c]

\* a fetch that goes to the network without consulting the cache
FetchDataNoLookup(c, now, url, params, readErr, writeErr, resp) ==
    LET key == CacheKey(url, params)
    IN  IF resp.kind = "http" /\ resp.status = 200
        THEN [key |-> key, outcome |-> "ok", result |-> resp.body,
              hit |-> FALSE, net |-> 1, attempted |-> 1,
              writes |-> IF writeErr THEN 0 ELSE 1,
              cache |-> IF writeErr THEN c
                        ELSE RedisSetex(c, key, CACHE_TTL, Dumps(resp.body),
                                        now + Secs(resp.delay))]
        ELSE [key |-> key,
              outcome |-> FailureLog(resp),
              result |-> JNull, hit |-> FALSE, net |-> 1, attempted |-> 0, writes |-> 0,
              cache |-> c]

\* a fetch that lets a cache error escape: the fetch fails on it
FetchDataCacheErrorFatal(c, now, url, params, readErr, writeErr, resp) ==
    LET key == CacheKey(url, params)
        got == RedisGet(c, key, now)
        hit == ~readErr /\ got.found /\ got.data # ""
    IN  IF readErr
        THEN [key |-> key, outcome |-> "unexpected_error", result |-> JNull,
              hit |-> FALSE, net |-> 0, attempted |-> 0, writes |-> 0, cache |-> c]
        ELSE IF hit
        THEN [key |-> key, outcome |-> "hit", result |-> Loads(got.data),
              hit |-> TRUE, net |-> 0, attempted |-> 0, writes |-> 0, cache |-> c]
        ELSE IF resp.kind = "http" /\ resp.status = 200
        THEN [key |-> key,
              outcome |-> IF writeErr THEN "unexpected_error" ELSE "ok",
              result |-> IF writeErr THEN JNull ELSE resp.body,
              hit |-> FALSE, net |-> 1, attempted |-> 1,
              writes |-> IF writeErr THEN 0 ELSE 1,
              cache |-> IF writeErr THEN c
                        ELSE RedisSetex(c, key, CACHE_TTL, Dumps(resp.body),
                                        now + Secs(resp.delay))]
        ELSE [key |-> key,
              outcome |-> FailureLog(resp),
              result |-> JNull, hit |-> FALSE, net |-> 1, attempted |-> 0, writes |-> 0,
              cache |-> c]

\* a fetch that stores the response under the URL alone
FetchDataKeyWithoutParams(c, now, url, params, readErr, writeErr, resp) ==
    LET key == CacheKey(url, params)
        got == RedisGet(c, key, now)
        hit == ~readErr /\ got.found /\ got.data # ""
    IN  IF hit
        THEN [key |-> key, outcome |-> "hit", result |-> Loads(got.data),
              hit |-> TRUE, net |-> 0, attempted |-> 0, writes |-> 0, cache |-> c]
        ELSE IF resp.kind = "http" /\ resp.status = 200
        THEN [key |-> key, outcome |-> "ok", result |-> resp.body,
              hit |-> FALSE, net |-> 1, attempted |-> 1,
              writes |-> IF writeErr THEN 0 ELSE 1,
              cache |-> IF writeErr THEN c
                        ELSE RedisSetex(c, CacheKey(url, <<>>), CACHE_TTL,
                                        Dumps(resp.body),
                                        now + Secs(resp.delay))]
        ELSE [key |-> key,
              outcome |-> FailureLog(resp),
              result |-> JNull, hit |-> FALSE, net |-> 1, attempted |-> 0, writes |-> 0,
              cache |-> c]

\* _fetch_data(session, url, headers, params) against cache store c at time
\* now.  readErr / writeErr: the store raises on get / on setex.  resp: what
\* session.get(...) produces if the network is reached.
FetchData(c, now, url, params, readErr, writeErr, resp) ==
    LET key == CacheKey(url, params)
        got == RedisGet(c, key, now)
        hit == ~readErr /\ got.found /\ got.data # ""
    IN  IF hit
        THEN [key |-> key, outcome |-> "hit", result |-> Loads(got.data),
              hit |-> TRUE, net |-> 0, attempted |-> 0, writes |-> 0, cache |-> c]
        ELSE IF resp.kind = "http" /\ resp.status = 200
        THEN [key |-> key, outcome |-> "ok", result |-> resp.body,
              hit |-> FALSE, net |-> 1, attempted |-> 1,
              writes |-> IF writeErr THEN 0 ELSE 1,
              cache |-> IF writeErr THEN c
                        ELSE RedisSetex(c, key, CACHE_TTL, Dumps(resp.body),
                                        now + Secs(resp.delay))]
        \* CancelledError is no Exception: no handler of _fetch_data catches
        \* it, nothing is logged or written, and it goes on to the caller
        ELSE IF resp.kind = "cancelled"
        THEN [key |-> key, outcome |-> "cancelled", result |-> JNull,
              hit |-> FALSE, net |-> 1, attempted |-> 0, writes |-> 0, cache |-> c]
        ELSE [key |-> key,
              outcome |-> FailureLog(resp),
              result |-> JNull, hit |-> FALSE, net |-> 1, attempted |-> 0, writes |-> 0,
              cache |-> c]

----------------------------------------------------------------------------
(* The rate limiter: @sleep_and_retry @limits(calls, period) on each method *)

CFBD_CALLS  == 50
CFBD_PERIOD == 60
ODDS_CALLS  == 450
ODDS_PERIOD == 3600

\* the decorated collect methods the model drives
Methods == { "collect_player_season_stats", "collect_team_season_stats",
             "collect_team_advanced_season_stats",
             "collect_team_talent_ratings", "collect_recruiting_data",
             "collect_teams_data", "collect_team_game_stats",
             "collect_player_game_stats", "collect_schedule",
             "collect_game_stats", "collect_betting_lines" }

\* the endpoint group a method calls: the key of base_endpoints it uses
Group(f) == IF f = "collect_betting_lines" THEN "odds" ELSE "cfbd"

Groups == { "cfbd", "odds" }

\* the arguments of the method's @limits decorator
LimitCalls(f)  == IF Group(f) = "odds" THEN ODDS_CALLS ELSE CFBD_CALLS
LimitPeriod(f) == IF Group(f) = "odds" THEN ODDS_PERIOD ELSE CFBD_PERIOD

\* One pass through the wrapper of limits: the window is reset when its
\* period has elapsed, the attempt is counted, and an attempt beyond the
\* maximum raises RateLimitException(period_remaining).
Limits(f, nc, lr, now) ==
    LET remaining == Secs(LimitPeriod(f)) - (now - lr)
        nc0 == IF remaining <= 0 THEN 0 ELSE nc
        lr0 == IF remaining <= 0 THEN now ELSE lr
    IN  [numCalls |-> nc0 + 1, lastReset |-> lr0,
         raised |-> nc0 + 1 > LimitCalls(f), periodRemaining |-> remaining]

\* The wrapper of sleep_and_retry: while the inner wrapper raises, the
\* thread sleeps (time.sleep) for period_remaining and tries again.
RECURSIVE SleepAndRetry(_, _, _, _)
SleepAndRetry(f, nc, lr, now) ==
    LET a == Limits(f, nc, lr, now)
    IN  IF ~a.raised
        THEN [numCalls |-> a.numCalls, lastReset |-> a.lastReset, now |-> now,
              slept |-> 0, attempts |-> 1]
        ELSE LET r == SleepAndRetry(f, a.numCalls, a.lastReset,
                                    now + a.periodRemaining)
             IN  [r EXCEPT !.slept = @ + a.periodRemaining, !.attempts = @ + 1]

----------------------------------------------------------------------------
(* The collect methods: request, fetch, normalization *)

\* An argument the call leaves out, or a key of the collector's config the
\* run does not set, has its default.
ArgOr(args, name, default) ==
    IF name \in DOMAIN args THEN args[name] ELSE default

\* {'Authorization': f"Bearer {self.config.get('cfbd_api_key', '')}"}
AuthHeaders(args) ==
    << <<"Authorization", "Bearer " \o ArgOr(args, "cfbd_api_key", "")>> >>

\* {'year': season}
YearOnly(args) == << <<"year", PyInt(args.season)>> >>

\* collect methods whose odds request names the season it is made for
RequestBettingBySeason(f, args) ==
    CASE f = "collect_player_season_stats" ->
            [url |-> CFBD \o "/stats/player/season", headers |-> AuthHeaders(args),
             params |-> YearOnly(args)
                        \o IF ArgOr(args, "category", "") # ""
                           THEN << <<"category", PyStr(args.category)>> >>
                           ELSE <<>>]
      [] f = "collect_team_season_stats" ->
            [url |-> CFBD \o "/stats/season", headers |-> AuthHeaders(args),
             params |-> YearOnly(args)]
      [] f = "collect_team_advanced_season_stats" ->
            [url |-> CFBD \o "/stats/season/advanced", headers |-> AuthHeaders(args),
             params |-> YearOnly(args)]
      [] f = "collect_team_talent_ratings" ->
            [url |-> CFBD \o "/talent", headers |-> AuthHeaders(args),
             params |-> YearOnly(args)]
      [] f = "collect_recruiting_data" ->
            [url |-> CFBD \o "/recruiting/teams", headers |-> AuthHeaders(args),
             params |-> YearOnly(args)]
      [] f = "collect_teams_data" ->
            [url |-> CFBD \o "/teams/fbs", headers |-> AuthHeaders(args), params |-> <<>>]
      [] f = "collect_team_game_stats" ->
            [url |-> CFBD \o "/games/teams", headers |-> AuthHeaders(args),
             params |-> << <<"year", PyInt(args.season)>> >>
                        \o IF args.week # 0 THEN << <<"week", PyInt(args.week)>> >>
                           ELSE <<>>]
      [] f = "collect_player_game_stats" ->
            [url |-> CFBD \o "/games/players", headers |-> AuthHeaders(args),
             params |-> << <<"year", PyInt(args.season)>> >>
                        \o (IF args.week # 0 THEN << <<"week", PyInt(args.week)>> >>
                            ELSE <<>>)
                        \o (IF ArgOr(args, "team", "") # ""
                            THEN << <<"team", PyStr(args.team)>> >>
                            ELSE <<>>)]
      [] f = "collect_schedule" ->
            [url |-> CFBD \o "/games", headers |-> AuthHeaders(args),
             params |-> << <<"year", PyInt(args.season)>>,
                           <<"division", PyStr("fbs")>> >>]
      [] f = "collect_game_stats" ->
            [url |-> CFBD \o "/stats/game/advanced", headers |-> AuthHeaders(args),
             params |-> << <<"gameId", PyInt(args.game_id)>> >>]
      [] f = "collect_betting_lines" ->
            [url |-> ODDS \o "/sports/americanfootball_ncaaf/odds", headers |-> <<>>,
             params |-> << <<"apiKey", PyStr(ArgOr(args, "odds_api_key", ""))>>,
                           <<"regions", PyStr("us")>>,
                           <<"markets", PyStr("spreads,totals")>>,
                           <<"oddsFormat", PyStr("american")>>,
                           <<"dateFormat", PyStr("iso")>>,
                           <<"year", PyInt(args.season)>> >>]

\* the url, headers and params a method builds from its arguments
\* (week = 0 stands for week=None and "" for category=None, team=None:
\* `if week:`, `if category:`, `if team:` skip both)
Request(f, args) ==
    CASE f = "collect_player_season_stats" ->
            [url |-> CFBD \o "/stats/player/season", headers |-> AuthHeaders(args),
             params |-> YearOnly(args)
                        \o IF ArgOr(args, "category", "") # ""
                           THEN << <<"category", PyStr(args.category)>> >>
                           ELSE <<>>]
      [] f = "collect_team_season_stats" ->
            [url |-> CFBD \o "/stats/season", headers |-> AuthHeaders(args),
             params |-> YearOnly(args)]
      [] f = "collect_team_advanced_season_stats" ->
            [url |-> CFBD \o "/stats/season/advanced", headers |-> AuthHeaders(args),
             params |-> YearOnly(args)]
      [] f = "collect_team_talent_ratings" ->
            [url |-> CFBD \o "/talent", headers |-> AuthHeaders(args),
             params |-> YearOnly(args)]
      [] f = "collect_recruiting_data" ->
            [url |-> CFBD \o "/recruiting/teams", headers |-> AuthHeaders(args),
             params |-> YearOnly(args)]
      [] f = "collect_teams_data" ->
            [url |-> CFBD \o "/teams/fbs", headers |-> AuthHeaders(args), params |-> <<>>]
      [] f = "collect_team_game_stats" ->
            [url |-> CFBD \o "/games/teams", headers |-> AuthHeaders(args),
             params |-> << <<"year", PyInt(args.season)>> >>
                        \o IF args.week # 0 THEN << <<"week", PyInt(args.week)>> >>
                           ELSE <<>>]
      [] f = "collect_player_game_stats" ->
            [url |-> CFBD \o "/games/players", headers |-> AuthHeaders(args),
             params |-> << <<"year", PyInt(args.season)>> >>
                        \o (IF args.week # 0 THEN << <<"week", PyInt(args.week)>> >>
                            ELSE <<>>)
                        \o (IF ArgOr(args, "team", "") # ""
                            THEN << <<"team", PyStr(args.team)>> >>
                            ELSE <<>>)]
      [] f = "collect_schedule" ->
            [url |-> CFBD \o "/games", headers |-> AuthHeaders(args),
             params |-> << <<"year", PyInt(args.season)>>,
                           <<"division", PyStr("fbs")>> >>]
      [] f = "collect_game_stats" ->
            [url |-> CFBD \o "/stats/game/advanced", headers |-> AuthHeaders(args),
             params |-> << <<"gameId", PyInt(args.game_id)>> >>]
      [] f = "collect_betting_lines" ->
            [url |-> ODDS \o "/sports/americanfootball_ncaaf/odds", headers |-> <<>>,
             params |-> << <<"apiKey", PyStr(ArgOr(args, "odds_api_key", ""))>>,
                           <<"regions", PyStr("us")>>,
                           <<"markets", PyStr("spreads,totals")>>,
                           <<"oddsFormat", PyStr("american")>>,
                           <<"dateFormat", PyStr("iso")>> >>]

Returned(v) == [raised |-> "", value |-> v]
Raised(e)   == [raised |-> e, value |-> JNull]

\* What `for x in v` goes through: the elements of a list, the keys of a
\* dict, the characters of a str (each a str of length 1); an int or None
\* is not iterable.
Iterate(v) ==
    CASE IsList(v) -> Returned(v)
      [] IsDict(v) -> Returned(JList([i \in 1..Len(v.dict) |-> JStr(v.dict[i][1])]))
      [] IsStr(v)  -> Returned(JList([i \in 1..Len(v.str) |->
                                         JStr(SubSeq(v.str, i, i))]))
      [] OTHER     -> Raised("TypeError")

\* the team_dict of collect_teams_data
TeamDict(team) ==
    JDict(<< <<"school", DictGet(team, "school")>>,
             <<"conference", DictGet(team, "conference")>>,
             <<"division", DictGet(team, "division")>>,
             <<"mascot", DictGet(team, "mascot")>>,
             <<"abbreviation", DictGet(team, "abbreviation")>>,
             <<"alt_name_1", DictGet(team, "alt_name_1")>>,
             <<"alt_name_2", DictGet(team, "alt_name_2")>>,
             <<"alt_name_3", DictGet(team, "alt_name_3")>>,
             <<"color", DictGet(team, "color")>>,
             <<"alt_color", DictGet(team, "alt_color")>>,
             <<"logos", DictGetOr(team, "logos", JList(<<>>))>> >>)

RECURSIVE TeamsLoop(_, _)
\* `for team in data:` of collect_teams_data, teams so far
TeamsLoop(elems, teams) ==
    IF elems = <<>> THEN Returned(JList(teams))
    \* team.get on an element that is no dict
    ELSE IF ~IsDict(Head(elems)) THEN Raised("AttributeError")
    ELSE TeamsLoop(Tail(elems), Append(teams, TeamDict(Head(elems))))

\* collect_teams_data after the fetch
TeamsOutput(data) ==
    IF ~Truthy(data) THEN Returned(JList(<<>>))
    ELSE LET it == Iterate(data)
         IN  IF it.raised # "" THEN it ELSE TeamsLoop(it.value.list, <<>>)

\* the methods that return the payload as it is: `if data:` logs len(data)
\* and returns data, otherwise returns []
RawOutput(data) ==
    IF ~Truthy(data) THEN Returned(JList(<<>>))
    ELSE IF HasLen(data) THEN Returned(data)
    ELSE Raised("TypeError")

\* a datetime object, held by its str()
JDate(s) == [datetime |-> s]
IsDate(v) == "datetime" \in DOMAIN v

RECURSIVE ReplaceZ(_)
\* s.replace('Z', '+00:00')
ReplaceZ(s) ==
    IF s = "" THEN ""
    ELSE (IF SubSeq(s, 1, 1) = "Z" THEN "+00:00" ELSE SubSeq(s, 1, 1))
         \o ReplaceZ(SubSeq(s, 2, Len(s)))

\* the characters U+0001..U+007F
AsciiChars ==
    { SubSeq(ControlChars, i, i) : i \in 1..Len(ControlChars) }
    \cup Printable \cup { SubSeq(DelAndLatin1, 1, 1) }

RECURSIVE Utf8(_)
\* The UTF-8 form datetime.fromisoformat walks over, one character per
\* byte: a character beyond ASCII takes two bytes, neither of them a digit
\* or a sign.
Utf8(s) ==
    IF s = "" THEN ""
    ELSE LET c == SubSeq(s, 1, 1)
         IN  (IF c \in AsciiChars THEN c ELSE c \o c) \o Utf8(SubSeq(s, 2, Len(s)))

\* s[k], k counted from 0; "" (the terminating NUL) outside the string
At(s, k) == IF k >= 0 /\ k < Len(s) THEN SubSeq(s, k + 1, k + 1) ELSE ""

DecimalDigits == "0123456789"
IsDigit(c) == \E i \in 1..10 : SubSeq(DecimalDigits, i, i) = c
DigitOf(c) == (CHOOSE i \in 1..10 : SubSeq(DecimalDigits, i, i) = c) - 1

RECURSIVE ParseDigits(_, _, _)
\* parse_digits: the number written by the n characters of s from p, or -1
\* when one of them is no digit
ParseDigits(s, p, n) ==
    IF n = 0 THEN 0
    ELSE LET front == ParseDigits(s, p, n - 1)
             c     == At(s, p + n - 1)
         IN  IF front < 0 \/ ~IsDigit(c) THEN -1 ELSE front * 10 + DigitOf(c)

RECURSIVE SkipDigits(_, _, _)
\* the first position from p on that holds no digit, n at the latest
SkipDigits(s, p, n) ==
    IF p < n /\ IsDigit(At(s, p)) THEN SkipDigits(s, p + 1, n) ELSE p

\* _find_isoformat_datetime_separator: where the date part of s ends, -1
\* for a string that has no such place
FindSeparator(s) ==
    LET n == Len(s)
    IN  IF n = 7 THEN 7
        ELSE IF At(s, 4) = "-"
        THEN IF At(s, 5) = "W"
             THEN IF n < 8 THEN -1
                  ELSE IF n > 8 /\ At(s, 8) = "-"
                  THEN IF n = 9 THEN -1
                       ELSE IF n > 10 /\ IsDigit(At(s, 10)) THEN 8
                       ELSE 10
                  ELSE 8
             ELSE 10
        ELSE IF At(s, 4) = "W"
        THEN LET idx == SkipDigits(s, 7, n)
             IN  IF idx < 9 THEN idx
                 ELSE IF idx % 2 = 0 THEN 7 ELSE 8
        ELSE 8

IsLeap(y) == y % 4 = 0 /\ (y % 100 # 0 \/ y % 400 = 0)
DaysInMonth(y, m) ==
    IF m = 2 THEN (IF IsLeap(y) THEN 29 ELSE 28)
    ELSE IF m \in { 4, 6, 9, 11 } THEN 30 ELSE 31
\* the days of the years before year y
DaysBeforeYear(y) ==
    (y - 1) * 365 + ((y - 1) \div 4) - ((y - 1) \div 100) + ((y - 1) \div 400)
RECURSIVE DaysBeforeMonth(_, _)
\* the days of year y before its month m
DaysBeforeMonth(y, m) ==
    IF m = 1 THEN 0 ELSE DaysBeforeMonth(y, m - 1) + DaysInMonth(y, m - 1)
\* the ordinal of a day, 0001-01-01 being day 1
YmdToOrd(y, m, d) == DaysBeforeYear(y) + DaysBeforeMonth(y, m) + d
\* the day of the year y that has ordinal n
DayInYear(n, y) ==
    LET r == n - DaysBeforeYear(y)
        m == CHOOSE k \in 1..12 :
                DaysBeforeMonth(y, k) < r /\ r <= DaysBeforeMonth(y, k) + DaysInMonth(y, k)
    IN  [ok |-> TRUE, year |-> y, month |-> m, day |-> r - DaysBeforeMonth(y, m)]

\* the day of ordinal n, which lies in year near - 1, near or near + 1
OrdToYmd(n, near) ==
    DayInYear(n, CHOOSE y \in (near - 1)..(near + 1) :
                    DaysBeforeYear(y) < n /\ n <= DaysBeforeYear(y + 1))

NoDate == [ok |-> FALSE, year |-> 0, month |-> 0, day |-> 0]

\* the day of an ISO year, week and weekday, first being the ordinal of
\* 1 January of the year
IsoDayOf(year, week, day, first) ==
    LET weekday  == (first + 6) % 7
        monday1  == IF (first + 6) % 7 > 3 THEN first - weekday + 7
                    ELSE first - weekday
        has53    == first % 7 = 4 \/ (first % 7 = 3 /\ IsLeap(year))
    IN  IF year < 1 \/ year > 9999 THEN NoDate
        ELSE IF week < 1 \/ week > 53 \/ (week = 53 /\ ~has53) THEN NoDate
        ELSE IF day < 1 \/ day > 7 THEN NoDate
        ELSE OrdToYmd(monday1 + (week - 1) * 7 + (day - 1), year)

\* iso_to_ymd: the day of an ISO year, week and weekday
IsoToYmd(year, week, day) == IsoDayOf(year, week, day, YmdToOrd(year, 1, 1))

\* the week date of parse_isoformat_date: "W", two digits of the week from
\* p and, when the date part goes on, the digit of the weekday
ParseIsoWeek(s, n, dash, year, p, week) ==
    LET q == p + 2
        r == IF dash THEN q + 1 ELSE q
    IN  IF week < 0 THEN NoDate
        ELSE IF q < n
        THEN IF dash /\ At(s, q) # "-" THEN NoDate
             ELSE IF ParseDigits(s, r, 1) < 0 THEN NoDate
             ELSE IsoToYmd(year, week, ParseDigits(s, r, 1))
        ELSE IsoToYmd(year, week, 1)

\* the calendar date of parse_isoformat_date: the month, read from p, and
\* the day, read from r
ParseIsoDay(s, dash, year, p, month, day) ==
    IF month < 0 THEN NoDate
    ELSE IF dash /\ At(s, p + 2) # "-" THEN NoDate
    ELSE IF day < 0 THEN NoDate
    ELSE [ok |-> TRUE, year |-> year, month |-> month, day |-> day]

\* parse_isoformat_date after the year: dash tells whether a "-" follows it
ParseIsoAfterYear(s, n, year, dash, p) ==
    IF year < 0 THEN NoDate
    ELSE IF At(s, p) = "W"
    THEN ParseIsoWeek(s, n, dash, year, p + 1, ParseDigits(s, p + 1, 2))
    ELSE ParseIsoDay(s, dash, year, p, ParseDigits(s, p, 2),
                     ParseDigits(s, IF dash THEN p + 3 ELSE p + 2, 2))

\* parse_isoformat_date(dtstr, len): the date written at the head of s,
\* whose date part is n long
ParseIsoDate(s, n) ==
    ParseIsoAfterYear(s, n, ParseDigits(s, 0, 4), At(s, 4) = "-",
                      IF At(s, 4) = "-" THEN 5 ELSE 4)

RECURSIVE Pow10(_)
\* 10 to the power k
Pow10(k) == IF k = 0 THEN 1 ELSE 10 * Pow10(k - 1)

\* the fraction of toParse digits from p, whose value is v
FractionOf(s, p, toParse, v, comps) ==
    IF v < 0 THEN [rv |-> -3, comps |-> comps]
    ELSE [rv |-> IF At(s, SkipDigits(s, p + toParse, Len(s))) # "" THEN 1 ELSE 0,
          comps |-> [comps EXCEPT ![4] = v * Pow10(6 - toParse)]]

\* the end of parse_hh_mm_ss_ff: the fraction of a second from p, up to e
ParseFraction(s, p, e, comps) ==
    FractionOf(s, p, IF e - p >= 6 THEN 6 ELSE e - p,
               ParseDigits(s, p, IF e - p >= 6 THEN 6 ELSE e - p), comps)

RECURSIVE ParseHmsLoop(_, _, _, _, _, _)
RECURSIVE ParseHmsPass(_, _, _, _, _, _, _, _)
\* Pass i of the loop of parse_hh_mm_ss_ff, which has read the two digits
\* v from p and the character c after them; hs tells whether the time is
\* written with colons.
ParseHmsPass(s, p, e, i, hs, v, c, comps) ==
    IF v < 0 THEN [rv |-> -3, comps |-> comps]
    ELSE IF p + 3 >= e
    THEN [rv |-> IF c # "" THEN 1 ELSE 0, comps |-> [comps EXCEPT ![i + 1] = v]]
    ELSE IF hs /\ c = ":"
    THEN IF i < 2
         THEN ParseHmsLoop(s, p + 3, e, i + 1, hs, [comps EXCEPT ![i + 1] = v])
         ELSE ParseFraction(s, p + 3, e, [comps EXCEPT ![i + 1] = v])
    ELSE IF c = "." \/ c = ","
    THEN ParseFraction(s, p + 3, e, [comps EXCEPT ![i + 1] = v])
    ELSE IF ~hs
    THEN IF i < 2
         THEN ParseHmsLoop(s, p + 2, e, i + 1, hs, [comps EXCEPT ![i + 1] = v])
         ELSE ParseFraction(s, p + 2, e, [comps EXCEPT ![i + 1] = v])
    ELSE [rv |-> -4, comps |-> comps]

\* The loop of parse_hh_mm_ss_ff, pass i (0: hours, 1: minutes, 2:
\* seconds) from p: two digits and the character after them.
ParseHmsLoop(s, p, e, i, sep, comps) ==
    ParseHmsPass(s, p, e, i, IF i = 0 THEN At(s, p + 2) = ":" ELSE sep,
                 ParseDigits(s, p, 2), At(s, p + 2), comps)

\* parse_hh_mm_ss_ff(tstr, tstr_end): rv 0 when the text from p ends with
\* the time, 1 when more follows, negative when it is no time
ParseHms(s, p, e) == ParseHmsLoop(s, p, e, 0, TRUE, << 0, 0, 0, 0 >>)

RECURSIVE TzPos(_, _)
\* the position of the first 'Z', '+' or '-' from p on (the do-while of
\* parse_isoformat_time: past the end when there is none)
TzPos(s, p) ==
    IF At(s, p) \in { "Z", "+", "-" } THEN p
    ELSE IF p + 1 < Len(s) THEN TzPos(s, p + 1)
    ELSE p + 1

NoTime == [ok |-> FALSE, comps |-> << 0, 0, 0, 0 >>, aware |-> FALSE,
           tzSign |-> 1, tz |-> << 0, 0, 0, 0 >>]

\* the time t read up to position z of s and the offset o read after it
TimeAndOffset(s, z, t, o) ==
    IF t.rv < 0 THEN NoTime
    ELSE IF z = Len(s)
    THEN IF t.rv = 1 THEN NoTime ELSE [NoTime EXCEPT !.ok = TRUE, !.comps = t.comps]
    ELSE IF At(s, z) = "Z"
    THEN IF At(s, z + 1) # "" THEN NoTime
         ELSE [NoTime EXCEPT !.ok = TRUE, !.comps = t.comps, !.aware = TRUE]
    ELSE IF o.rv # 0 THEN NoTime
    ELSE [ok |-> TRUE, comps |-> t.comps, aware |-> TRUE,
          tzSign |-> IF At(s, z) = "-" THEN -1 ELSE 1, tz |-> o.comps]

\* the time written in s from p up to z, where the offset begins
ParseIsoTimeTo(s, p, z) ==
    TimeAndOffset(s, z, ParseHms(s, p, z), ParseHms(s, z + 1, Len(s)))

\* parse_isoformat_time: the time and the offset written in s from p on
ParseIsoTime(s, p) == ParseIsoTimeTo(s, p, TzPos(s, p))

RECURSIVE Pad(_, _)
\* n written with at least w digits
Pad(n, w) == IF w > 1 /\ n < Pow10(w - 1) THEN "0" \o Pad(n, w - 1) ELSE ToString(n)

\* str() of a utcoffset of the given sign, whole seconds and microseconds
OffsetStr(sign, seconds, micros) ==
    (IF sign < 0 THEN "-" ELSE "+")
    \o Pad(seconds \div 3600, 2) \o ":" \o Pad((seconds % 3600) \div 60, 2)
    \o (IF seconds % 60 # 0 \/ micros # 0 THEN ":" \o Pad(seconds % 60, 2) ELSE "")
    \o (IF micros # 0 THEN "." \o Pad(micros, 6) ELSE "")

\* The datetime of the date d and the time t, whose offset is off seconds:
\* ValueError for a day, a time or an offset that does not exist.
DateTimeOf(d, t, off) ==
    IF ~d.ok THEN Raised("ValueError")
    ELSE IF ~t.ok THEN Raised("ValueError")
    ELSE IF \/ d.year < 1 \/ d.year > 9999 \/ d.month < 1 \/ d.month > 12
            \/ d.day < 1 \/ d.day > DaysInMonth(d.year, d.month)
            \/ t.comps[1] > 23 \/ t.comps[2] > 59 \/ t.comps[3] > 59
    THEN Raised("ValueError")
    \* a timezone offset is strictly less than a day
    ELSE IF t.aware /\ off >= 86400
    THEN Raised("ValueError")
    ELSE Returned(JDate(
            Pad(d.year, 4) \o "-" \o Pad(d.month, 2) \o "-" \o Pad(d.day, 2)
            \o " " \o Pad(t.comps[1], 2) \o ":" \o Pad(t.comps[2], 2)
            \o ":" \o Pad(t.comps[3], 2)
            \o (IF t.comps[4] # 0 THEN "." \o Pad(t.comps[4], 6) ELSE "")
            \o (IF ~t.aware THEN ""
                ELSE IF off = 0 THEN "+00:00"
                ELSE OffsetStr(t.tzSign, off, t.tz[4]))))

\* the datetime of the date d and the time t
DateAndTime(d, t) == DateTimeOf(d, t, t.tz[1] * 3600 + t.tz[2] * 60 + t.tz[3])

\* the datetime written in the bytes b, whose date part ends at sep
FromIsoAt(b, sep) ==
    IF Len(b) < 7 \/ sep < 0 THEN Raised("ValueError")
    ELSE DateAndTime(ParseIsoDate(b, sep),
                     IF Len(b) > sep
                     THEN ParseIsoTime(b, IF At(b, sep) \in AsciiChars
                                          THEN sep + 1 ELSE sep + 2)
                     ELSE [NoTime EXCEPT !.ok = TRUE])

\* the datetime written in the bytes b
FromIsoBytes(b) == FromIsoAt(b, FindSeparator(b))

\* datetime.fromisoformat(s) of Python 3.11: the datetime, or ValueError
\* for a string that is no ISO 8601 date and time, or that names a day, a
\* time or an offset that does not exist
FromIsoFormat(s) == FromIsoBytes(Utf8(s))

\* the value of start_date after the try block that parsed to r
DateOrNone(r) == IF r.raised = "" THEN r.value ELSE JNull

\* The date parsing of collect_schedule and collect_betting_lines:
\*   d = None
\*   if v: try: d = datetime.fromisoformat(v.replace('Z', '+00:00'))
\*         except (ValueError, AttributeError): warning
\* (a value that is no str has no .replace: AttributeError, caught)
ParseDate(v) ==
    IF ~Truthy(v) THEN JNull
    ELSE IF ~IsStr(v) THEN JNull
    ELSE DateOrNone(FromIsoFormat(ReplaceZ(v.str)))

\* the game_dict of collect_schedule
GameDict(game) ==
    JDict(<< <<"id", DictGet(game, "id")>>,
             <<"season", DictGet(game, "season")>>,
             <<"week", DictGet(game, "week")>>,
             <<"season_type", DictGet(game, "season_type")>>,
             <<"start_date", ParseDate(DictGet(game, "start_date"))>>,
             <<"home_team", DictGet(game, "home_team")>>,
             <<"away_team", DictGet(game, "away_team")>>,
             <<"home_points", DictGet(game, "home_points")>>,
             <<"away_points", DictGet(game, "away_points")>>,
             <<"venue", DictGet(game, "venue")>>,
             <<"venue_id", DictGet(game, "venue_id")>>,
             <<"neutral_site", DictGet(game, "neutral_site")>>,
             <<"conference_game", DictGet(game, "conference_game")>>,
             <<"attendance", DictGet(game, "attendance")>> >>)

RECURSIVE ScheduleLoopDropsBadDates(_, _)
\* a schedule loop that leaves out a game whose date does not parse
ScheduleLoopDropsBadDates(elems, games) ==
    IF elems = <<>> THEN Returned(JList(games))
    ELSE IF ~IsDict(Head(elems)) THEN Raised("AttributeError")
    ELSE IF IsNull(ParseDate(DictGet(Head(elems), "start_date")))
    THEN ScheduleLoopDropsBadDates(Tail(elems), games)
    ELSE ScheduleLoopDropsBadDates(Tail(elems), Append(games, GameDict(Head(elems))))

RECURSIVE ScheduleLoopReversed(_, _)
\* a schedule loop that puts each game in front of the list
ScheduleLoopReversed(elems, games) ==
    IF elems = <<>> THEN Returned(JList(games))
    ELSE IF ~IsDict(Head(elems)) THEN Raised("AttributeError")
    ELSE ScheduleLoopReversed(Tail(elems), <<GameDict(Head(elems))>> \o games)

RECURSIVE ScheduleLoop(_, _)
\* `for game in data:` of collect_schedule, games so far
ScheduleLoop(elems, games) ==
    IF elems = <<>> THEN Returned(JList(games))
    \* game.get on an element that is no dict
    ELSE IF ~IsDict(Head(elems)) THEN Raised("AttributeError")
    ELSE ScheduleLoop(Tail(elems), Append(games, GameDict(Head(elems))))

\* collect_schedule after the fetch
ScheduleOutput(data) ==
    IF ~Truthy(data) THEN Returned(JList(<<>>))
    ELSE LET it == Iterate(data)
         IN  IF it.raised # "" THEN it ELSE ScheduleLoop(it.value.list, <<>>)

\* the statistics collect_game_stats extracts, in the order of processed_stats
StatFields ==
    << "totalYards", "netPassingYards", "rushingYards", "turnovers",
       "thirdDownEff", "sacks", "tacklesForLoss", "passCompletionPercentage",
       "timeOfPossession", "firstDowns", "fourthDownEff", "penalties",
       "penaltyYards" >>

\* processed_stats of collect_game_stats
ProcessedStats(teamName, stats) ==
    JDict(<< <<"team", teamName>> >>
          \o [i \in 1..Len(StatFields) |->
                 <<StatFields[i], DictGet(stats, StatFields[i])>>])

\* d[k] = v on the items of a dict
DictSet(items, k, v) ==
    IF \E i \in 1..Len(items) : items[i][1] = k
    THEN [i \in 1..Len(items) |-> IF items[i][1] = k THEN <<k, v>> ELSE items[i]]
    ELSE Append(items, <<k, v>>)

RECURSIVE GameStatsLoopSwapped(_, _)
\* a loop that fills team_2 first
GameStatsLoopSwapped(entries, gameStats) ==
    IF entries = <<>> THEN Returned(JDict(gameStats))
    ELSE LET e == Head(entries)
         IN  IF ~IsDict(e) THEN Raised("AttributeError")
             ELSE IF ~Truthy(DictGet(e, "team"))
                  THEN GameStatsLoopSwapped(Tail(entries), gameStats)
             ELSE LET stats == DictGetOr(e, "stats", JDict(<<>>))
                  IN  IF ~IsDict(stats) THEN Raised("AttributeError")
                      ELSE GameStatsLoopSwapped(Tail(entries),
                              DictSet(gameStats,
                                      IF gameStats = <<>> THEN "team_2" ELSE "team_1",
                                      ProcessedStats(DictGet(e, "team"), stats)))

RECURSIVE GameStatsLoop(_, _)
\* `for team_stats in data:` of collect_game_stats, game_stats so far
GameStatsLoop(entries, gameStats) ==
    IF entries = <<>> THEN Returned(JDict(gameStats))
    ELSE LET e == Head(entries)
         IN  \* team_stats.get on an element that is no dict
             IF ~IsDict(e) THEN Raised("AttributeError")
             \* if not team_name: continue
             ELSE IF ~Truthy(DictGet(e, "team"))
                  THEN GameStatsLoop(Tail(entries), gameStats)
             ELSE LET stats == DictGetOr(e, "stats", JDict(<<>>))
                  IN  \* stats.get on a 'stats' value that is no dict
                      IF ~IsDict(stats) THEN Raised("AttributeError")
                      ELSE GameStatsLoop(Tail(entries),
                              DictSet(gameStats,
                                      IF gameStats = <<>> THEN "team_1" ELSE "team_2",
                                      ProcessedStats(DictGet(e, "team"), stats)))

\* collect_game_stats after the fetch
GameStatsOutput(data) ==
    IF Truthy(data) /\ IsList(data) /\ Len(data.list) >= 2
    THEN GameStatsLoop(data.list, <<>>)
    ELSE Returned(JNull)

\* line_data of collect_betting_lines before the markets are read
LineData(homeTeam, awayTeam, gameTime, bookmakerName) ==
    << <<"home_team", homeTeam>>, <<"away_team", awayTeam>>,
       <<"commence_time", gameTime>>, <<"bookmaker", bookmakerName>>,
       <<"spread_point", JNull>>, <<"spread_home_price", JNull>>,
       <<"spread_away_price", JNull>>, <<"total_point", JNull>>,
       <<"total_over_price", JNull>>, <<"total_under_price", JNull>> >>

RECURSIVE SpreadOutcomes(_, _, _, _)
\* `for outcome in outcomes:` of a spreads market
SpreadOutcomes(outcomes, line, homeTeam, awayTeam) ==
    IF outcomes = <<>> THEN Returned(line)
    ELSE LET o == Head(outcomes)
         IN  IF ~IsDict(o) THEN Raised("AttributeError")
             ELSE IF PyEq(DictGet(o, "name"), homeTeam)
             THEN SpreadOutcomes(Tail(outcomes),
                     DictSet(DictSet(line, "spread_point", DictGet(o, "point")),
                             "spread_home_price", DictGet(o, "price")),
                     homeTeam, awayTeam)
             ELSE IF PyEq(DictGet(o, "name"), awayTeam)
             THEN SpreadOutcomes(Tail(outcomes),
                     DictSet(line, "spread_away_price", DictGet(o, "price")),
                     homeTeam, awayTeam)
             ELSE SpreadOutcomes(Tail(outcomes), line, homeTeam, awayTeam)

RECURSIVE TotalOutcomes(_, _)
\* `for outcome in outcomes:` of a totals market
TotalOutcomes(outcomes, line) ==
    IF outcomes = <<>> THEN Returned(line)
    ELSE LET o == Head(outcomes)
         IN  IF ~IsDict(o) THEN Raised("AttributeError")
             ELSE IF DictGet(o, "name") = JStr("Over")
             THEN TotalOutcomes(Tail(outcomes),
                     DictSet(DictSet(line, "total_point", DictGet(o, "point")),
                             "total_over_price", DictGet(o, "price")))
             ELSE IF DictGet(o, "name") = JStr("Under")
             THEN TotalOutcomes(Tail(outcomes),
                     DictSet(line, "total_under_price", DictGet(o, "price")))
             ELSE TotalOutcomes(Tail(outcomes), line)

RECURSIVE MarketsLoop(_, _, _, _)
\* `for market in bookmaker.get('markets', []):`
MarketsLoop(markets, line, homeTeam, awayTeam) ==
    IF markets = <<>> THEN Returned(line)
    ELSE LET m == Head(markets)
         IN  IF ~IsDict(m) THEN Raised("AttributeError")
             ELSE IF DictGet(m, "key") \in { JStr("spreads"), JStr("totals") }
             THEN LET outcomes == Iterate(DictGetOr(m, "outcomes", JList(<<>>)))
                      r == IF outcomes.raised # "" THEN outcomes
                           ELSE IF DictGet(m, "key") = JStr("spreads")
                           THEN SpreadOutcomes(outcomes.value.list, line,
                                               homeTeam, awayTeam)
                           ELSE TotalOutcomes(outcomes.value.list, line)
                  IN  IF r.raised # "" THEN r
                      ELSE MarketsLoop(Tail(markets), r.value, homeTeam, awayTeam)
             ELSE MarketsLoop(Tail(markets), line, homeTeam, awayTeam)

RECURSIVE BookmakersLoop(_, _, _, _, _)
\* `for bookmaker in game.get('bookmakers', []):`, betting_lines so far
BookmakersLoop(bookmakers, lines, homeTeam, awayTeam, gameTime) ==
    IF bookmakers = <<>> THEN Returned(lines)
    ELSE LET b == Head(bookmakers)
         IN  IF ~IsDict(b) THEN Raised("AttributeError")
             ELSE LET markets == Iterate(DictGetOr(b, "markets", JList(<<>>)))
                      r == IF markets.raised # "" THEN markets
                           ELSE MarketsLoop(markets.value.list,
                                    LineData(homeTeam, awayTeam, gameTime,
                                             DictGet(b, "key")),
                                    homeTeam, awayTeam)
                  IN  IF r.raised # "" THEN r
                      ELSE BookmakersLoop(Tail(bookmakers),
                                          Append(lines, JDict(r.value)),
                                          homeTeam, awayTeam, gameTime)

RECURSIVE GamesLoopFirstBookmaker(_, _)
\* a loop that reads only the first bookmaker of each game
GamesLoopFirstBookmaker(games, lines) ==
    IF games = <<>> THEN Returned(JList(lines))
    ELSE LET g == Head(games)
         IN  IF ~IsDict(g) THEN Raised("AttributeError")
             ELSE LET bookmakers == Iterate(DictGetOr(g, "bookmakers", JList(<<>>)))
                      r == IF bookmakers.raised # "" THEN bookmakers
                           ELSE BookmakersLoop(
                                    IF bookmakers.value.list = <<>> THEN <<>>
                                    ELSE << Head(bookmakers.value.list) >>, lines,
                                    DictGet(g, "home_team"), DictGet(g, "away_team"),
                                    ParseDate(DictGet(g, "commence_time")))
                  IN  IF r.raised # "" THEN r
                      ELSE GamesLoopFirstBookmaker(Tail(games), r.value)

RECURSIVE GamesLoop(_, _)
\* `for game in data:` of collect_betting_lines, betting_lines so far
GamesLoop(games, lines) ==
    IF games = <<>> THEN Returned(JList(lines))
    ELSE LET g == Head(games)
         IN  IF ~IsDict(g) THEN Raised("AttributeError")
             ELSE LET bookmakers == Iterate(DictGetOr(g, "bookmakers", JList(<<>>)))
                      r == IF bookmakers.raised # "" THEN bookmakers
                           ELSE BookmakersLoop(bookmakers.value.list, lines,
                                    DictGet(g, "home_team"), DictGet(g, "away_team"),
                                    ParseDate(DictGet(g, "commence_time")))
                  IN  IF r.raised # "" THEN r
                      ELSE GamesLoop(Tail(games), r.value)

\* collect_betting_lines after the fetch
BettingOutput(data) ==
    IF Truthy(data) /\ IsList(data) THEN GamesLoop(data.list, <<>>)
    ELSE Returned(JList(<<>>))

\* the body of a collect method after `data = await self._fetch_data(...)`
Normalize(f, data) ==
    CASE f = "collect_teams_data"    -> TeamsOutput(data)
      [] f = "collect_schedule"      -> ScheduleOutput(data)
      [] f = "collect_game_stats"    -> GameStatsOutput(data)
      [] f = "collect_betting_lines" -> BettingOutput(data)
      [] OTHER                       -> RawOutput(data)

\* the record of one collect call
NoCall ==
    [f |-> "", args |-> <<>>,
     req |-> [url |-> "", headers |-> <<>>, params |-> <<>>],
     key |-> "", issuedAt |-> 0, win |-> 0, nth |-> 0, executedAt |-> 0,
     returnedAt |-> 0, slept |-> 0,
     budgetUsed |-> 0, readErr |-> FALSE, writeErr |-> FALSE,
     resp |-> NoResponse, outcome |-> "", hit |-> FALSE, net |-> 0,
     writes |-> 0, result |-> JNull, out |-> Returned(JNull)]

\* The start of the window a limiter counts in at time now, when the window
\* it counted in so far began at ws: a call that arrives when the period
\* has elapsed begins a new window at its own time.
WindowOf(ws, now, period) == IF period - (now - ws) <= 0 THEN now ELSE ws

GroupPeriod(g) == IF g = "odds" THEN ODDS_PERIOD ELSE CFBD_PERIOD
GroupCalls(g)  == IF g = "odds" THEN ODDS_CALLS ELSE CFBD_CALLS

RECURSIVE SumOver(_, _)
\* the sum of the values of l over the set s of its arguments
SumOver(l, s) ==
    IF s = {} THEN 0
    ELSE LET t == CHOOSE x \in s : TRUE IN l[t] + SumOver(l, s \ {t})

\* the log l of call times after n more network calls at time now: the calls
\* of the last period, those at now - period and before being dropped
Logged(l, now, period, n) ==
    LET kept == { t \in DOMAIN l : t > now - period }
        old  == [t \in kept |-> l[t]]
    IN  IF n = 0 THEN old
        ELSE (now :> ((IF now \in kept THEN l[now] ELSE 0) + n)) @@ old

\* nobody inside the limiter wrappers
NoWait == [waiting |-> {}, ready |-> <<>>, arrived |-> 0, lastGrant |-> 0,
           lastSlept |-> 0,
           inflight |-> [f \in Methods |-> 0], reads |-> 0, sent |-> 0,
           done |-> 0]

\* os.environ of the modelled runs: both API keys are set
Environ == [CFBD_API_KEY |-> "cfbd-key", ODDS_API_KEY |-> "odds-key"]

\* get_config(): the entries the collector reads, os.getenv finding both
\* variables in the environment
GetConfig ==
    [cfbd_api_key |-> Environ.CFBD_API_KEY, odds_api_key |-> Environ.ODDS_API_KEY]

\* the arguments of a call on the collector main() builds from get_config()
WithConfig(args) == args @@ GetConfig

\* `await self.collector.<f>(...)`: the caller goes on when the call has
\* returned, so no call begins while another is suspended
Awaited == pending.f = ""

\* a collect call that asks the limiter only after a cache miss
CollectCallLimitOnMiss(f, args, readErr) ==
    LET req  == Request(f, args)
        pre  == FetchData(cache, clock, req.url, req.params, readErr, FALSE,
                          NoResponse)
        lim  == IF pre.hit
                THEN [numCalls |-> numCalls[f], lastReset |-> lastReset[f],
                      now |-> clock, slept |-> 0, attempts |-> 0]
                ELSE SleepAndRetry(f, numCalls[f], lastReset[f], clock)
        look == FetchData(cache, lim.now, req.url, req.params, readErr, FALSE,
                          NoResponse)
        g    == Group(f)
        w    == WindowOf(winStart[g], lim.now, Secs(GroupPeriod(g)))
        iw   == WindowOf(issuedWin[g], clock, Secs(GroupPeriod(g)))
        nth  == IF issuedWin[g] = iw THEN issued[g] + 1 ELSE 1
        call == [NoCall EXCEPT !.f = f, !.args = args, !.req = req,
                               !.key = look.key, !.issuedAt = clock,
                               !.win = iw, !.nth = nth,
                               !.executedAt = lim.now, !.returnedAt = lim.now,
                               !.slept = lim.slept,
                               !.budgetUsed = lim.attempts,
                               !.readErr = readErr]
    IN  /\ clock' = lim.now
        /\ numCalls' = [numCalls EXCEPT ![f] = lim.numCalls]
        /\ lastReset' = [lastReset EXCEPT ![f] = lim.lastReset]
        /\ cache' = cache
        /\ netCount' = [netCount EXCEPT ![g] =
                            IF winStart[g] = w THEN @ + look.net ELSE look.net]
        /\ winStart' = [winStart EXCEPT ![g] = w]
        /\ issued' = [issued EXCEPT ![g] = nth]
        /\ issuedWin' = [issuedWin EXCEPT ![g] = iw]
        /\ nCalls' = nCalls + 1
        /\ wait' = wait
        /\ IF look.net = 0
           THEN /\ prev' = last
                /\ last' = [call EXCEPT !.outcome = look.outcome,
                                        !.hit = look.hit,
                                        !.result = look.result,
                                        !.out = Normalize(f, look.result)]
                /\ pending' = NoCall
           ELSE /\ pending' = call
                /\ UNCHANGED <<prev, last>>

\* a collector whose methods all pass one limiter: every call counts
\* against every method's budget
CollectCallSharedLimiter(f, args, readErr) ==
    LET lim  == SleepAndRetry(f, numCalls[f], lastReset[f], clock)
        req  == Request(f, args)
        look == FetchData(cache, lim.now, req.url, req.params, readErr, FALSE,
                          NoResponse)
        g    == Group(f)
        w    == WindowOf(winStart[g], lim.now, Secs(GroupPeriod(g)))
        iw   == WindowOf(issuedWin[g], clock, Secs(GroupPeriod(g)))
        nth  == IF issuedWin[g] = iw THEN issued[g] + 1 ELSE 1
        call == [NoCall EXCEPT !.f = f, !.args = args, !.req = req,
                               !.key = look.key, !.issuedAt = clock,
                               !.win = iw, !.nth = nth,
                               !.executedAt = lim.now, !.returnedAt = lim.now,
                               !.slept = lim.slept,
                               !.budgetUsed = lim.attempts,
                               !.readErr = readErr]
    IN  /\ clock' = lim.now
        /\ numCalls' = [m \in Methods |-> lim.numCalls]
        /\ lastReset' = [m \in Methods |-> lim.lastReset]
        /\ cache' = cache
        /\ netCount' = [netCount EXCEPT ![g] =
                            IF winStart[g] = w THEN @ + look.net ELSE look.net]
        /\ winStart' = [winStart EXCEPT ![g] = w]
        /\ issued' = [issued EXCEPT ![g] = nth]
        /\ issuedWin' = [issuedWin EXCEPT ![g] = iw]
        /\ nCalls' = nCalls + 1
        /\ wait' = wait
        /\ IF look.net = 0
           THEN /\ prev' = last
                /\ last' = [call EXCEPT !.outcome = look.outcome,
                                        !.hit = look.hit,
                                        !.result = look.result,
                                        !.out = Normalize(f, look.result)]
                /\ pending' = NoCall
           ELSE /\ pending' = call
                /\ UNCHANGED <<prev, last>>

\* The call of a decorated method and its body up to the first suspension.
\* The limiter wrappers run first, in the caller (the thread may sleep
\* there); then the body builds the request and _fetch_data looks the key
\* up.  On a hit the call returns without suspending; otherwise session.get
\* sends the request and the call is suspended until the answer arrives.
CollectCall(f, args, readErr) ==
    LET lim  == SleepAndRetry(f, numCalls[f], lastReset[f], clock)
        req  == Request(f, args)
        look == FetchData(cache, lim.now, req.url, req.params, readErr, FALSE,
                          NoResponse)
        g    == Group(f)
        w    == WindowOf(winStart[g], lim.now, Secs(GroupPeriod(g)))
        iw   == WindowOf(issuedWin[g], clock, Secs(GroupPeriod(g)))
        nth  == IF issuedWin[g] = iw THEN issued[g] + 1 ELSE 1
        call == [NoCall EXCEPT !.f = f, !.args = args, !.req = req,
                               !.key = look.key, !.issuedAt = clock,
                               !.win = iw, !.nth = nth,
                               !.executedAt = lim.now, !.returnedAt = lim.now,
                               !.slept = lim.slept,
                               !.budgetUsed = lim.attempts,
                               !.readErr = readErr]
    IN  /\ clock' = lim.now
        /\ numCalls' = [numCalls EXCEPT ![f] = lim.numCalls]
        /\ lastReset' = [lastReset EXCEPT ![f] = lim.lastReset]
        /\ cache' = cache
        /\ netCount' = [netCount EXCEPT ![g] =
                            IF winStart[g] = w THEN @ + look.net ELSE look.net]
        /\ winStart' = [winStart EXCEPT ![g] = w]
        /\ issued' = [issued EXCEPT ![g] = nth]
        /\ issuedWin' = [issuedWin EXCEPT ![g] = iw]
        /\ nCalls' = nCalls + 1
        /\ wait' = wait
        /\ IF look.net = 0
           THEN /\ prev' = last
                /\ last' = [call EXCEPT !.outcome = look.outcome,
                                        !.hit = look.hit,
                                        !.result = look.result,
                                        !.out = Normalize(f, look.result)]
                /\ pending' = NoCall
           ELSE /\ pending' = call
                /\ UNCHANGED <<prev, last>>

\* The suspended call is resumed: session.get has produced resp,
\* resp.delay seconds after the request was sent.  _fetch_data reads the
\* body, stores it (setex) and returns; the method normalizes and returns.
CollectResume(writeErr, resp) ==
    LET p  == pending
        fr == FetchData(cache, p.executedAt, p.req.url, p.req.params,
                        p.readErr, writeErr, resp)
    IN  /\ clock' = p.executedAt + Secs(resp.delay)
        /\ cache' = fr.cache
        /\ prev' = last
        /\ last' = [p EXCEPT !.returnedAt = p.executedAt + Secs(resp.delay),
                             !.writeErr = fr.attempted = 1 /\ writeErr,
                             !.resp = IF fr.hit THEN NoResponse ELSE resp,
                             !.outcome = fr.outcome, !.hit = fr.hit,
                             !.net = fr.net, !.writes = fr.writes,
                             !.result = fr.result,
                             !.out = IF fr.outcome = "cancelled"
                                     THEN Raised("CancelledError")
                                     ELSE Normalize(p.f, fr.result)]
        /\ pending' = NoCall
        /\ UNCHANGED <<numCalls, lastReset, netCount, winStart, issued,
                       issuedWin, nCalls, wait>>

\* this step is the return of a collect call: at once on a cache hit, or on
\* the resumption of the suspended call
CallReturns ==
    pending'.f = "" /\ (pending.f # "" \/ nCalls' = nCalls + 1)

\* the collector just constructed, the cache store holding c
CollStart(c) ==
    /\ clock = 0
    /\ numCalls = [f \in Methods |-> 0]
    /\ lastReset = [f \in Methods |-> 0]
    /\ cache = c
    /\ netCount = [g \in Groups |-> 0]
    /\ winStart = [g \in Groups |-> 0]
    /\ issued = [g \in Groups |-> 0]
    /\ issuedWin = [g \in Groups |-> 0]
    /\ prev = NoCall
    /\ last = NoCall
    /\ nCalls = 0
    /\ nTicks = 0
    /\ wait = NoWait
    /\ pending = NoCall
    /\ netLog = [f \in Methods |-> <<>>]

\* the collector just constructed, the cache store empty
CollInit == CollStart(<<>>)

\* the cache-key variables while the collector runs
KeyIdle ==
    /\ kUrl1 = "" /\ kUrl2 = "" /\ kParams1 = <<>> /\ kParams2 = <<>>
    /\ kKey1 = "" /\ kKey2 = "" /\ kPc = "idle"

----------------------------------------------------------------------------
(* The orchestrator: the collection methods of DataIngestionPipeline, each  *)
(* as a list of instructions (its loops unrolled), run one instruction at   *)
(* a time.  An awaited collect call returns a value or raises; a save of    *)
(* non-empty data writes the file or raises.  config['save_to_files'] is    *)
(* True, as get_config() sets it.                                           *)

Instr(op, method, arg, key, tenths) ==
    [op |-> op, method |-> method, arg |-> arg, key |-> key, file |-> key,
     tenths |-> tenths]

\* self.save_data(collected_data[key], f"{file}_{season}")
SaveAs(key, file) == [Instr("save", "", 0, key, 0) EXCEPT !.file = file]

\* value = await self.collector.<method>(season); collected_data[key] = value;
\* if save_to_files: self.save_data(value, f"{key}_{season}")
Single(method, key) ==
    << Instr("collect", method, 0, key, 0), Instr("save", "", 0, key, 0) >>

\* one pass of `for category in player_categories:`
CategoryItem(c) ==
    << Instr("collect", "collect_player_season_stats", c,
             "player_" \o AllCategories[c] \o "_stats", 0),
       Instr("save", "", 0, "player_" \o AllCategories[c] \o "_stats", 0),
       Instr("sleep", "", 0, "", 10) >>

\* one pass of a weekly loop: collect, extend the local list, sleep
WeekItem(method, week, tenths) ==
    << Instr("collect", method, week, "", 0), Instr("sleep", "", 0, "", tenths) >>

RECURSIVE Concat(_)
\* the passes of a loop one after the other
Concat(passes) ==
    IF passes = <<>> THEN <<>> ELSE Head(passes) \o Concat(Tail(passes))

TeamWeek(w)   == WeekItem("collect_team_game_stats", w, 5)
PlayerWeek(w) == WeekItem("collect_player_game_stats", w, 10)

\* the body of the try block of collect_comprehensive_data
Program ==
    Single("collect_teams_data", "teams")
    \o Single("collect_schedule", "schedule")
    \o Single("collect_team_season_stats", "team_season_stats")
    \o Single("collect_team_advanced_season_stats", "team_advanced_stats")
    \o Concat([c \in 1..Len(Categories) |-> CategoryItem(c)])
    \o Single("collect_team_talent_ratings", "talent_ratings")
    \o Single("collect_recruiting_data", "recruiting")
    \o << Instr("begin", "", 0, "", 0) >>
    \o Concat([w \in 1..WEEKLY_WEEKS |-> TeamWeek(w)])
    \o << Instr("commit", "", 0, "weekly_team_stats", 0),
          Instr("save", "", 0, "weekly_team_stats", 0) >>
    \o << Instr("begin", "", 0, "", 0) >>
    \o Concat([w \in 1..SAMPLE_WEEKS |-> PlayerWeek(w)])
    \o << Instr("commit", "", 0, "player_game_stats_sample", 0),
          Instr("save", "", 0, "player_game_stats_sample", 0) >>
    \o << Instr("return", "", 0, "", 0) >>

\* the body of the try block of collect_all_data(season)
BasicProgram(season) ==
    Single("collect_teams_data", "teams")
    \o Single("collect_schedule", "schedule")
    \o Single("collect_team_season_stats", "team_season_stats")
    \o (IF season = CurrentSeason
        THEN Single("collect_betting_lines", "betting_lines") ELSE <<>>)
    \o << Instr("return", "", 0, "", 0) >>

\* the body of the try block of collect_player_stats_only
PlayerStatsProgram ==
    Concat([c \in 1..Len(AllCategories) |-> CategoryItem(c)])
    \o << Instr("return", "", 0, "", 0) >>

\* the body of the try block of collect_detailed_game_data(season, max_weeks)
DetailedProgram(maxWeeks) ==
    << Instr("begin", "", 0, "", 0) >>
    \o Concat([w \in 1..maxWeeks |-> TeamWeek(w)])
    \o << Instr("commit", "", 0, "weekly_team_stats", 0),
          SaveAs("weekly_team_stats", "detailed_weekly_team_stats") >>
    \o << Instr("begin", "", 0, "", 0) >>
    \o Concat([w \in 1..maxWeeks |-> PlayerWeek(w)])
    \o << Instr("commit", "", 0, "player_game_stats", 0),
          SaveAs("player_game_stats", "detailed_player_game_stats") >>
    \o << Instr("return", "", 0, "", 0) >>

\* the instructions of the collection method the run st executes
ProgramOf(st) ==
    CASE st.entry = "collect_comprehensive_data" -> Program
      [] st.entry = "collect_all_data"           -> BasicProgram(st.season)
      [] st.entry = "collect_player_stats_only"  -> PlayerStatsProgram
      [] st.entry = "collect_detailed_game_data" -> DetailedProgram(st.maxWeeks)
      [] OTHER                                   -> <<>>

\* the arguments the orchestrator passes to the collect call of ins
CallArgs(season, ins) ==
    [season |-> season,
     week |-> IF ins.method \in { "collect_team_game_stats",
                                  "collect_player_game_stats" }
              THEN ins.arg ELSE 0,
     category |-> IF ins.method = "collect_player_season_stats"
                  THEN AllCategories[ins.arg] ELSE ""]

\* the body the provider sends with status 200 to the request of method f
Answer(f, args) ==
    CASE f = "collect_teams_data"    -> JList(<<TeamB, TeamA>>)
      [] f = "collect_betting_lines" -> JList(<<GameOdds>>)
      [] OTHER -> ItemsPayload(args.season, args.week, args.category)

\* the records the collect call of (method, arg) returns in a season when
\* the provider answers it
Records(season, method, arg) ==
    LET ins == Instr("collect", method, arg, "", 0)
    IN  Normalize(method, Answer(method, CallArgs(season, ins))).value.list

\* collected_data.get(key, [])
DataGet(d, key) == IF key \in DOMAIN d THEN d[key] ELSE JList(<<>>)

\* entry into a collection method of the pipeline
StartRun(entry, season, maxWeeks) ==
    [entry |-> entry, season |-> season, maxWeeks |-> maxWeeks,
     pc |-> 1, collected |-> <<>>, acc |-> <<>>,
     status |-> "running", handled |-> FALSE, saved |-> {},
     log |-> <<>>, lastOp |-> "", sleptTenths |-> 0]

\* entry into collect_comprehensive_data(season)
StartSeason(season) == StartRun("collect_comprehensive_data", season, 0)

\* no collection method in progress
NoRun ==
    [entry |-> "", season |-> 0, maxWeeks |-> 0,
     pc |-> 0, collected |-> <<>>, acc |-> <<>>,
     status |-> "idle", handled |-> FALSE, saved |-> {},
     log |-> <<>>, lastOp |-> "", sleptTenths |-> 0]

\* A KeyboardInterrupt, or the CancelledError of a cancelled task, is no
\* Exception.
IsInterrupt(out) == out.raised \in { "CancelledError", "KeyboardInterrupt" }

\* how an instruction ended, as the log of the run records it: a collect
\* call returned records ("ok"), returned nothing ("fail") or raised
\* ("raise"); a save wrote its file ("ok") or raised; or the interrupt
\* arrived in it
OutcomeClass(op, out) ==
    CASE IsInterrupt(out)                      -> "interrupt"
      [] out.raised # ""                       -> "raise"
      [] op = "collect" /\ ~Truthy(out.value)  -> "fail"
      [] OTHER                                 -> "ok"

\* except Exception as e: logger.error(...); return collected_data
Handler(st, entry) ==
    [st EXCEPT !.status = "returned", !.handled = TRUE,
               !.log = Append(@, entry), !.lastOp = "except"]

\* `except Exception` does not catch the interrupt: it leaves the
\* collection method at the await it arrived in.
Interrupted(st, entry) ==
    [st EXCEPT !.status = "escaped", !.log = Append(@, entry),
               !.lastOp = "interrupt"]

\* an orchestrator in which a failed item ends the batch like an exception
StepSeasonFailAborts(st, out) ==
    LET ins   == ProgramOf(st)[st.pc]
        entry == [pc |-> st.pc, op |-> ins.op, method |-> ins.method,
                  arg |-> ins.arg, outcome |-> OutcomeClass(ins.op, out),
                  slept |-> st.sleptTenths]
        next  == [st EXCEPT !.pc = @ + 1, !.lastOp = ins.op]
    IN  CASE IsInterrupt(out) -> Interrupted(st, entry)
          [] ins.op = "collect" ->
               IF out.raised # "" \/ ~Truthy(out.value) THEN Handler(st, entry)
               ELSE IF ins.key # ""
               THEN [next EXCEPT !.collected = (ins.key :> out.value) @@ @,
                                 !.log = Append(@, entry)]
               ELSE LET it == Iterate(out.value)
                    IN  IF it.raised # ""
                        THEN Handler(st, [entry EXCEPT !.outcome = "raise"])
                        ELSE [next EXCEPT !.acc = @ \o it.value.list,
                                          !.log = Append(@, entry)]
          [] ins.op = "save" ->
               IF ~Truthy(DataGet(st.collected, ins.key)) THEN next
               ELSE IF out.raised # "" THEN Handler(st, entry)
               ELSE [next EXCEPT
                        !.saved = @ \cup { ins.file \o "_" \o ToString(st.season) },
                        !.log = Append(@, entry)]
          [] ins.op = "sleep"  -> [next EXCEPT !.sleptTenths = @ + ins.tenths]
          [] ins.op = "begin"  -> [next EXCEPT !.acc = <<>>]
          [] ins.op = "commit" ->
               [next EXCEPT !.collected = (ins.key :> JList(st.acc)) @@ @]
          [] ins.op = "return" ->
               [st EXCEPT !.status = "returned", !.lastOp = "return"]

\* an orchestrator whose handler lets the exception go on to the caller
StepSeasonReraises(st, out) ==
    LET ins   == ProgramOf(st)[st.pc]
        entry == [pc |-> st.pc, op |-> ins.op, method |-> ins.method,
                  arg |-> ins.arg, outcome |-> OutcomeClass(ins.op, out),
                  slept |-> st.sleptTenths]
        next  == [st EXCEPT !.pc = @ + 1, !.lastOp = ins.op]
        escape == [st EXCEPT !.status = "escaped", !.log = Append(@, entry),
                             !.lastOp = "except"]
    IN  CASE IsInterrupt(out) -> Interrupted(st, entry)
          [] ins.op = "collect" ->
               IF out.raised # "" THEN escape
               ELSE IF ins.key # ""
               THEN [next EXCEPT !.collected = (ins.key :> out.value) @@ @,
                                 !.log = Append(@, entry)]
               ELSE IF ~Truthy(out.value)
               THEN [next EXCEPT !.log = Append(@, entry)]
               ELSE LET it == Iterate(out.value)
                    IN  IF it.raised # ""
                        THEN [escape EXCEPT !.log = Append(st.log,
                                          [entry EXCEPT !.outcome = "raise"])]
                        ELSE [next EXCEPT !.acc = @ \o it.value.list,
                                          !.log = Append(@, entry)]
          [] ins.op = "save" ->
               IF ~Truthy(DataGet(st.collected, ins.key)) THEN next
               ELSE IF out.raised # "" THEN escape
               ELSE [next EXCEPT
                        !.saved = @ \cup { ins.file \o "_" \o ToString(st.season) },
                        !.log = Append(@, entry)]
          [] ins.op = "sleep"  -> [next EXCEPT !.sleptTenths = @ + ins.tenths]
          [] ins.op = "begin"  -> [next EXCEPT !.acc = <<>>]
          [] ins.op = "commit" ->
               [next EXCEPT !.collected = (ins.key :> JList(st.acc)) @@ @]
          [] ins.op = "return" ->
               [st EXCEPT !.status = "returned", !.lastOp = "return"]

\* an orchestrator that puts the records of a week in front of the list
StepSeasonPrepends(st, out) ==
    LET ins   == ProgramOf(st)[st.pc]
        entry == [pc |-> st.pc, op |-> ins.op, method |-> ins.method,
                  arg |-> ins.arg, outcome |-> OutcomeClass(ins.op, out),
                  slept |-> st.sleptTenths]
        next  == [st EXCEPT !.pc = @ + 1, !.lastOp = ins.op]
    IN  CASE IsInterrupt(out) -> Interrupted(st, entry)
          [] ins.op = "collect" ->
               IF out.raised # "" THEN Handler(st, entry)
               ELSE IF ins.key # ""
               THEN [next EXCEPT !.collected = (ins.key :> out.value) @@ @,
                                 !.log = Append(@, entry)]
               ELSE IF ~Truthy(out.value)
               THEN [next EXCEPT !.log = Append(@, entry)]
               ELSE LET it == Iterate(out.value)
                    IN  IF it.raised # ""
                        THEN Handler(st, [entry EXCEPT !.outcome = "raise"])
                        ELSE [next EXCEPT !.acc = it.value.list \o @,
                                          !.log = Append(@, entry)]
          [] ins.op = "save" ->
               IF ~Truthy(DataGet(st.collected, ins.key)) THEN next
               ELSE IF out.raised # "" THEN Handler(st, entry)
               ELSE [next EXCEPT
                        !.saved = @ \cup { ins.file \o "_" \o ToString(st.season) },
                        !.log = Append(@, entry)]
          [] ins.op = "sleep"  -> [next EXCEPT !.sleptTenths = @ + ins.tenths]
          [] ins.op = "begin"  -> [next EXCEPT !.acc = <<>>]
          [] ins.op = "commit" ->
               [next EXCEPT !.collected = (ins.key :> JList(st.acc)) @@ @]
          [] ins.op = "return" ->
               [st EXCEPT !.status = "returned", !.lastOp = "return"]

\* an orchestrator that paces the weekly loops only after a week with records
StepSeasonNoPaceOnFail(st, out) ==
    LET ins   == ProgramOf(st)[st.pc]
        entry == [pc |-> st.pc, op |-> ins.op, method |-> ins.method,
                  arg |-> ins.arg, outcome |-> OutcomeClass(ins.op, out),
                  slept |-> st.sleptTenths]
        next  == [st EXCEPT !.pc = @ + 1, !.lastOp = ins.op]
    IN  CASE IsInterrupt(out) -> Interrupted(st, entry)
          [] ins.op = "collect" ->
               IF out.raised # "" THEN Handler(st, entry)
               ELSE IF ins.key # ""
               THEN [next EXCEPT !.collected = (ins.key :> out.value) @@ @,
                                 !.log = Append(@, entry)]
               ELSE IF ~Truthy(out.value)
               THEN [next EXCEPT !.log = Append(@, entry)]
               ELSE LET it == Iterate(out.value)
                    IN  IF it.raised # ""
                        THEN Handler(st, [entry EXCEPT !.outcome = "raise"])
                        ELSE [next EXCEPT !.acc = @ \o it.value.list,
                                          !.log = Append(@, entry)]
          [] ins.op = "save" ->
               IF ~Truthy(DataGet(st.collected, ins.key)) THEN next
               ELSE IF out.raised # "" THEN Handler(st, entry)
               ELSE [next EXCEPT
                        !.saved = @ \cup { ins.file \o "_" \o ToString(st.season) },
                        !.log = Append(@, entry)]
          [] ins.op = "sleep"  ->
               IF st.log # <<>> /\ st.log[Len(st.log)].op = "collect"
                                /\ st.log[Len(st.log)].outcome = "fail"
               THEN next
               ELSE [next EXCEPT !.sleptTenths = @ + ins.tenths]
          [] ins.op = "begin"  -> [next EXCEPT !.acc = <<>>]
          [] ins.op = "commit" ->
               [next EXCEPT !.collected = (ins.key :> JList(st.acc)) @@ @]
          [] ins.op = "return" ->
               [st EXCEPT !.status = "returned", !.lastOp = "return"]

\* an orchestrator whose handler also catches the interrupt and goes on
\* with the next instruction
StepSeasonSwallowsInterrupt(st, out) ==
    LET ins   == ProgramOf(st)[st.pc]
        entry == [pc |-> st.pc, op |-> ins.op, method |-> ins.method,
                  arg |-> ins.arg, outcome |-> OutcomeClass(ins.op, out),
                  slept |-> st.sleptTenths]
        next  == [st EXCEPT !.pc = @ + 1, !.lastOp = ins.op]
    IN  CASE IsInterrupt(out) -> [next EXCEPT !.log = Append(@, entry)]
          [] ins.op = "collect" ->
               IF out.raised # "" THEN Handler(st, entry)
               ELSE IF ins.key # ""
               THEN [next EXCEPT !.collected = (ins.key :> out.value) @@ @,
                                 !.log = Append(@, entry)]
               ELSE IF ~Truthy(out.value)
               THEN [next EXCEPT !.log = Append(@, entry)]
               ELSE LET it == Iterate(out.value)
                    IN  IF it.raised # ""
                        THEN Handler(st, [entry EXCEPT !.outcome = "raise"])
                        ELSE [next EXCEPT !.acc = @ \o it.value.list,
                                          !.log = Append(@, entry)]
          [] ins.op = "save" ->
               IF ~Truthy(DataGet(st.collected, ins.key)) THEN next
               ELSE IF out.raised # "" THEN Handler(st, entry)
               ELSE [next EXCEPT
                        !.saved = @ \cup { ins.file \o "_" \o ToString(st.season) },
                        !.log = Append(@, entry)]
          [] ins.op = "sleep"  -> [next EXCEPT !.sleptTenths = @ + ins.tenths]
          [] ins.op = "begin"  -> [next EXCEPT !.acc = <<>>]
          [] ins.op = "commit" ->
               [next EXCEPT !.collected = (ins.key :> JList(st.acc)) @@ @]
          [] ins.op = "return" ->
               [st EXCEPT !.status = "returned", !.lastOp = "return"]

\* One instruction of a collection method in state st.  out is what the
\* awaited collect call or the save does: Returned(value) or Raised(e); an
\* instruction that does neither (a sleep that ends, a local statement)
\* has Returned(JNull), and the interrupt arriving at an await is Raised.
StepSeason(st, out) ==
    LET ins   == ProgramOf(st)[st.pc]
        entry == [pc |-> st.pc, op |-> ins.op, method |-> ins.method,
                  arg |-> ins.arg, outcome |-> OutcomeClass(ins.op, out),
                  slept |-> st.sleptTenths]
        next  == [st EXCEPT !.pc = @ + 1, !.lastOp = ins.op]
    IN  CASE IsInterrupt(out) -> Interrupted(st, entry)
          [] ins.op = "collect" ->
               IF out.raised # "" THEN Handler(st, entry)
               ELSE IF ins.key # ""
               \* collected_data[key] = value
               THEN [next EXCEPT !.collected = (ins.key :> out.value) @@ @,
                                 !.log = Append(@, entry)]
               \* if week_stats: weekly.extend(week_stats)
               ELSE IF ~Truthy(out.value)
               THEN [next EXCEPT !.log = Append(@, entry)]
               ELSE LET it == Iterate(out.value)
                    IN  IF it.raised # ""
                        THEN Handler(st, [entry EXCEPT !.outcome = "raise"])
                        ELSE [next EXCEPT !.acc = @ \o it.value.list,
                                          !.log = Append(@, entry)]
          [] ins.op = "save" ->
               \* save_data: `if not data: return`, else the file is written
               IF ~Truthy(DataGet(st.collected, ins.key)) THEN next
               ELSE IF out.raised # "" THEN Handler(st, entry)
               ELSE [next EXCEPT
                        !.saved = @ \cup { ins.file \o "_" \o ToString(st.season) },
                        !.log = Append(@, entry)]
          [] ins.op = "sleep"  -> [next EXCEPT !.sleptTenths = @ + ins.tenths]
          [] ins.op = "begin"  -> [next EXCEPT !.acc = <<>>]
          [] ins.op = "commit" ->
               [next EXCEPT !.collected = (ins.key :> JList(st.acc)) @@ @]
          [] ins.op = "return" ->
               [st EXCEPT !.status = "returned", !.lastOp = "return"]

\* the store is reachable and no fault has happened
NoEnv == [storeDown |-> FALSE, faults |-> 0]

\* the orchestrator variables while another part of the system is checked
PipeIdle ==
    /\ run = NoRun
    /\ allData = <<>>
    /\ seasonIx = 0
    /\ ingestPc = "idle"
    /\ env = NoEnv

----------------------------------------------------------------------------
(* The fetch specification: a few collect calls against one cache store,    *)
(* with every upstream response and every cache failure, and time passing   *)
(* between the calls.                                                       *)

\* collect calls in one run
MaxCalls == 2
\* time advances in one run
MaxTicks == 1

FetchMethods == { "collect_teams_data", "collect_team_game_stats" }

FetchArgs(f) ==
    IF f = "collect_teams_data" THEN { [season |-> 0, week |-> 0] }
    ELSE { [season |-> 2024, week |-> 1] }

\* seconds an answer can take
MaxDelay == 5

Responses(f) ==
    IF f = "collect_teams_data"
    THEN { HttpResponse(200, b) : b \in TeamsPayloads }
         \cup { Delayed(HttpResponse(200, JList(<<TeamB, TeamA>>)), MaxDelay) }
         \cup { HttpResponse(503, JNull), ConnError, Timeout }
    ELSE { HttpResponse(200, JList(<<GameA>>)), HttpResponse(503, JNull) }

\* seconds that pass between two calls: just short of the TTL, and the TTL
FetchTicks == { CACHE_TTL - 1, CACHE_TTL }

FetchCollect ==
    /\ nCalls < MaxCalls
    /\ Awaited
    /\ \E f \in FetchMethods : \E args \in FetchArgs(f) :
       \E readErr \in BOOLEAN :
          CollectCall(f, WithConfig(args), readErr)
    /\ UNCHANGED <<nTicks, keyVars, obsVars, pipeVars>>

FetchResume ==
    /\ ~Awaited
    /\ \E writeErr \in BOOLEAN : \E resp \in Responses(pending.f) :
          CollectResume(writeErr, resp)
    /\ UNCHANGED <<nTicks, keyVars, obsVars, pipeVars>>

FetchTick ==
    /\ nTicks < MaxTicks
    /\ Awaited
    /\ \E d \in FetchTicks : clock' = clock + Secs(d)
    /\ nTicks' = nTicks + 1
    /\ UNCHANGED <<numCalls, lastReset, cache, netCount, winStart, issued,
                   issuedWin, prev, last, nCalls, wait, pending,
                   keyVars, obsVars, pipeVars>>

FetchInit == CollInit /\ KeyIdle /\ PipeIdle

FetchNext == FetchCollect \/ FetchResume \/ FetchTick

FetchSpec == FetchInit /\ [][FetchNext]_vars

----------------------------------------------------------------------------
(* The rate specification: a burst of collect calls of two methods of the   *)
(* stats provider, long enough to exhaust a limiter.  The cache store is    *)
(* unreachable throughout (every get and setex raises), so every call goes  *)
(* to the network.                                                          *)

\* collect calls in one run of the burst
MaxRateCalls == 52

RateMethods == { "collect_team_game_stats", "collect_player_game_stats" }

RateArgs == [season |-> 2024, week |-> 1]

RateResponses == { HttpResponse(200, JList(<<GameA>>)) }

\* seconds that pass between two calls of the burst
RateTicks == { CFBD_PERIOD - 1 }

RateCollect ==
    /\ nCalls < MaxRateCalls
    /\ Awaited
    /\ \E f \in RateMethods : CollectCall(f, WithConfig(RateArgs), TRUE)
    /\ UNCHANGED <<nTicks, keyVars, obsVars, pipeVars>>

RateResume ==
    /\ ~Awaited
    /\ \E resp \in RateResponses : CollectResume(TRUE, resp)
    /\ UNCHANGED <<nTicks, keyVars, obsVars, pipeVars>>

RateTick ==
    /\ nTicks < MaxTicks
    /\ Awaited
    /\ \E d \in RateTicks : clock' = clock + Secs(d)
    /\ nTicks' = nTicks + 1
    /\ UNCHANGED <<numCalls, lastReset, cache, netCount, winStart, issued,
                   issuedWin, prev, last, nCalls, wait, pending,
                   keyVars, obsVars, pipeVars>>

RateInit == CollInit /\ KeyIdle /\ PipeIdle

RateNext == RateCollect \/ RateResume \/ RateTick

RateSpec == RateInit /\ [][RateNext]_vars

----------------------------------------------------------------------------
(* The cache-key specification: two requests drawn from bounded sets and   *)
(* the cache key _fetch_data computes for each.                            *)

KeyUrls == { CFBD \o "/games", CFBD \o "/games/teams" }

KeyParamNames == { "year", "week", "category" }

KeyParamValues(k) ==
    CASE k = "year"     -> { PyInt(2023), PyInt(2024) }
      [] k = "week"     -> { PyInt(1), PyInt(2) }
      [] k = "category" -> { PyStr("passing"), PyStr("rushing") }

KeyItems == UNION { { <<k, v>> : v \in KeyParamValues(k) } : k \in KeyParamNames }

\* every dict of at most MaxParams items, in every insertion order
KeyDicts ==
    UNION { { s \in [1..n -> KeyItems] :
                \A i, j \in 1..n : i # j => s[i][1] # s[j][1] }
            : n \in 0..MaxParams }

\* the set of items of a dict
ItemSet(params) == { params[i] : i \in 1..Len(params) }

KeyInit ==
    /\ CollInit
    /\ PipeIdle
    /\ kUrl1 \in KeyUrls
    /\ kUrl2 \in KeyUrls
    /\ kParams1 \in KeyDicts
    /\ kParams2 \in KeyDicts
    /\ kKey1 = ""
    /\ kKey2 = ""
    /\ kPc = "args"

\* _fetch_data lines 59-63 for each of the two requests
ComputeKeys ==
    /\ kPc = "args"
    /\ kKey1' = CacheKey(kUrl1, kParams1)
    /\ kKey2' = CacheKey(kUrl2, kParams2)
    /\ kPc' = "done"
    /\ UNCHANGED <<kUrl1, kParams1, kUrl2, kParams2,
                   collVars, pipeVars, obsVars>>

KeyNext == ComputeKeys

KeySpec == KeyInit /\ [][KeyNext]_vars

----------------------------------------------------------------------------
(* The batch specification: one call of a collection method of the         *)
(* pipeline (collect_comprehensive_data, collect_all_data,                 *)
(* collect_player_stats_only or collect_detailed_game_data), one           *)
(* instruction per step.  Its collect calls are the collector's own: the   *)
(* limiter counts the call, the cache store is consulted, the request is   *)
(* sent and the call is suspended until the answer arrives; its pacing     *)
(* sleeps move the clock.  At most MaxFaults things go wrong in it: the    *)
(* provider answers 503 or with a document that is no array, or a file     *)
(* cannot be written.  The cache store is reachable or unreachable for     *)
(* the whole run.                                                          *)

\* answers of the provider that are no data, and saves that raise, in one run
MaxFaults == 1

\* the max_weeks arguments of collect_detailed_game_data: its default and a
\* smaller number
MaxWeeksArgs == { 3, WEEKLY_WEEKS }

\* the calls of the collection methods the runs begin with
Entries ==
    { StartRun("collect_comprehensive_data", Seasons[i], 0) : i \in 1..Len(Seasons) }
    \cup { StartRun("collect_all_data", Seasons[i], 0) : i \in 1..Len(Seasons) }
    \cup { StartRun("collect_player_stats_only", CurrentSeason, 0) }
    \cup { StartRun("collect_detailed_game_data", CurrentSeason, w) :
              w \in MaxWeeksArgs }

\* collect calls and saves of a run that returned nothing or raised
Faults(st) ==
    Cardinality({ i \in 1..Len(st.log) : st.log[i].outcome # "ok" })

\* The places of a run of run_full_ingestion where something goes wrong:
\* the first call of a season, its first save, and the third week of its
\* weekly team batch.  A single collection method can fail anywhere.
FaultSites ==
    { i \in 1..Len(Program) :
         \/ i <= 2
         \/ Program[i].method = "collect_team_game_stats" /\ Program[i].arg = 3 }

\* one more thing may go wrong at the instruction the run is at
FaultAllowed ==
    /\ env.faults < MaxFaults
    /\ ingestPc # "idle" => run.pc \in FaultSites

\* what the provider sends to the suspended call: the data asked for, or a
\* fault
BatchResponses ==
    { HttpResponse(200, Answer(pending.f, pending.args)) }
    \cup (IF FaultAllowed
          THEN { HttpResponse(503, JNull), HttpResponse(200, JInt(5)) }
          ELSE {})

\* the cache key of the collect call at instruction i of run st
KeyOfCall(st, i) ==
    LET ins == ProgramOf(st)[i]
        req == Request(ins.method, WithConfig(CallArgs(st.season, ins)))
    IN  CacheKey(req.url, req.params)

RECURSIVE SleptBefore(_, _)
\* the tenths of a second the pacing sleeps of program prog take before its
\* instruction i
SleptBefore(prog, i) ==
    IF i <= 1 THEN 0 ELSE SleptBefore(prog, i - 1) + prog[i - 1].tenths

\* The store as an earlier run of the same collection method left it, at
\* the instant that run ended and this one begins (this run's clock 0):
\* the answers to its collect calls, each under the key of its call and
\* with setex's time to live counted from its own write, the writes being
\* spread over the earlier run by its pacing sleeps; but for the calls at
\* the instructions of missed, which the provider did not answer then.
StoreAfter(st, missed) ==
    LET prog  == ProgramOf(st)
        calls == { i \in DOMAIN prog : prog[i].op = "collect" /\ i \notin missed }
        keys  == { KeyOfCall(st, i) : i \in calls }
        at(k) == CHOOSE i \in calls : KeyOfCall(st, i) = k
    IN  [k \in keys |->
            [data |-> Dumps(Answer(prog[at(k)].method, CallArgs(st.season, prog[at(k)]))),
             expiresAt |-> SleptBefore(prog, at(k)) - SleptBefore(prog, Len(prog) + 1)
                           + Secs(CACHE_TTL)]]

\* the call the earlier run may have lost: the third week of the weekly
\* team batch
MissedBefore(st) ==
    { i \in DOMAIN ProgramOf(st) :
         /\ ProgramOf(st)[i].method = "collect_team_game_stats"
         /\ ProgramOf(st)[i].arg = 3 }

\* The stores a run can begin with: the empty one, and those an earlier
\* run that has just ended left behind.
StoresBefore(st) ==
    { <<>>, StoreAfter(st, {}) } \cup { StoreAfter(st, {i}) : i \in MissedBefore(st) }

BatchInit ==
    /\ KeyIdle
    /\ run \in Entries
    /\ allData = <<>>
    /\ seasonIx = 0
    /\ ingestPc = "idle"
    /\ \E down \in BOOLEAN : env = [storeDown |-> down, faults |-> 0]
    /\ \E c \in (IF env.storeDown THEN { <<>> } ELSE StoresBefore(run)) : CollStart(c)

\* `await self.collector.collect_*(...)` up to the point where the call is
\* suspended in session.get, or to its return when the cache answers
BatchCollect ==
    /\ run.status = "running"
    /\ ProgramOf(run)[run.pc].op = "collect"
    /\ Awaited
    /\ CollectCall(ProgramOf(run)[run.pc].method,
                   WithConfig(CallArgs(run.season, ProgramOf(run)[run.pc])),
                   env.storeDown)
    /\ run' = IF pending'.f = "" THEN StepSeason(run, last'.out) ELSE run
    /\ UNCHANGED <<nTicks, allData, seasonIx, ingestPc, env, keyVars, obsVars>>

\* the answer arrives: the suspended call stores it, returns, and the
\* collection method goes on with what it returned or raised
BatchResume ==
    /\ run.status = "running"
    /\ ~Awaited
    /\ \E resp \in BatchResponses :
          /\ CollectResume(env.storeDown, resp)
          /\ run' = StepSeason(run, last'.out)
          /\ env' = [env EXCEPT !.faults =
                        IF resp.status = 200 /\ IsList(resp.body) THEN @ ELSE @ + 1]
    /\ UNCHANGED <<nTicks, allData, seasonIx, ingestPc, keyVars, obsVars>>

\* self.save_data(...): nothing to save, the file is written, or open or
\* json.dump raises
BatchSave ==
    /\ run.status = "running"
    /\ ProgramOf(run)[run.pc].op = "save"
    /\ \E out \in { Returned(JNull), Raised("OSError") } :
          /\ out.raised # "" =>
                /\ FaultAllowed
                /\ Truthy(DataGet(run.collected, ProgramOf(run)[run.pc].key))
          /\ run' = StepSeason(run, out)
          /\ env' = [env EXCEPT !.faults = IF out.raised # "" THEN @ + 1 ELSE @]
    /\ UNCHANGED <<allData, seasonIx, ingestPc, keyVars, obsVars, collVars>>

\* await asyncio.sleep(...) of a loop: the task is suspended for the time
BatchSleep ==
    /\ run.status = "running"
    /\ ProgramOf(run)[run.pc].op = "sleep"
    /\ run' = StepSeason(run, Returned(JNull))
    /\ clock' = clock + (run'.sleptTenths - run.sleptTenths)
    /\ UNCHANGED <<numCalls, lastReset, cache, netCount, winStart, issued,
                   issuedWin, prev, last, nCalls, nTicks, wait, pending,
                   allData, seasonIx, ingestPc, env, keyVars, obsVars>>

\* the statements around a weekly loop and the final return
BatchLocal ==
    /\ run.status = "running"
    /\ ProgramOf(run)[run.pc].op \in { "begin", "commit", "return" }
    /\ run' = StepSeason(run, Returned(JNull))
    /\ UNCHANGED <<allData, seasonIx, ingestPc, env, keyVars, obsVars, collVars>>

BatchNext ==
    BatchCollect \/ BatchResume \/ BatchSave \/ BatchSleep \/ BatchLocal

BatchSpec == BatchInit /\ [][BatchNext]_vars

----------------------------------------------------------------------------
(* The ingestion specification: run_full_ingestion over the configured      *)
(* seasons, one statement per step; the statements of                       *)
(* collect_comprehensive_data are those of the batch specification.         *)

IngestInit ==
    /\ CollInit /\ KeyIdle
    /\ run = NoRun
    /\ allData = <<>>
    /\ seasonIx = 0
    /\ ingestPc = "loop"
    /\ \E down \in BOOLEAN : env = [storeDown |-> down, faults |-> 0]

\* `for season in self.config['seasons_to_collect']:` has a next season:
\* collect_comprehensive_data(season) is entered
IngestBegin ==
    /\ ingestPc = "loop"
    /\ seasonIx < Len(Seasons)
    /\ run' = [StartSeason(Seasons[seasonIx + 1]) EXCEPT !.saved = run.saved]
    /\ ingestPc' = "season"
    /\ UNCHANGED <<allData, seasonIx, env, keyVars, obsVars, collVars>>

\* the awaited collect_comprehensive_data is over:
\* all_collected_data[season] = season_data, or its exception leaves
\* run_full_ingestion
IngestStore ==
    /\ ingestPc = "season"
    /\ run.status \in { "returned", "escaped" }
    /\ IF run.status = "returned"
       THEN /\ allData' = (run.season :> run.collected) @@ allData
            /\ seasonIx' = seasonIx + 1
            /\ ingestPc' = "sleep"
       ELSE /\ ingestPc' = "aborted"
            /\ UNCHANGED <<allData, seasonIx>>
    /\ UNCHANGED <<run, env, keyVars, obsVars, collVars>>

\* await asyncio.sleep(2)
IngestSleep ==
    /\ ingestPc = "sleep"
    /\ run' = [run EXCEPT !.sleptTenths = @ + Secs(2)]
    /\ clock' = clock + Secs(2)
    /\ ingestPc' = "loop"
    /\ UNCHANGED <<numCalls, lastReset, cache, netCount, winStart, issued,
                   issuedWin, prev, last, nCalls, nTicks, wait, pending,
                   allData, seasonIx, env, keyVars, obsVars>>

\* after the loop: generate_summary_report, save_data(summary, ...)
IngestSummary ==
    /\ ingestPc = "loop"
    /\ seasonIx = Len(Seasons)
    /\ \E out \in { Returned(JNull), Raised("OSError") } :
          /\ out.raised # "" => env.faults < MaxFaults
          /\ IF out.raised = ""
             THEN /\ run' = [run EXCEPT !.saved = @ \cup { "collection_summary" }]
                  /\ ingestPc' = "done"
                  /\ env' = env
             ELSE /\ run' = run
                  /\ ingestPc' = "summary_failed"
                  /\ env' = [env EXCEPT !.faults = @ + 1]
    /\ UNCHANGED <<allData, seasonIx, keyVars, obsVars, collVars>>

IngestNext ==
    \/ IngestBegin \/ IngestStore \/ IngestSleep \/ IngestSummary
    \/ BatchCollect \/ BatchResume \/ BatchSave \/ BatchSleep \/ BatchLocal

IngestSpec == IngestInit /\ [][IngestNext]_vars

----------------------------------------------------------------------------
(* The normalizer specification: collect calls of the four normalizing      *)
(* methods, the upstream answering with every array of up to MaxItems       *)
(* elements drawn from objects that are complete, that omit fields, or that *)
(* are malformed.  The cache store is unreachable, so every call goes to    *)
(* the network.                                                             *)

\* elements of one upstream array
MaxItems == 2
\* collect calls in one run
MaxNormCalls == 1

TeamC == JDict(<< <<"school", JStr("Georgia")>>,
                  <<"logos", JList(<< JStr("https://a.espncdn.com/61.png") >>)>> >>)
TeamNoSchool == JDict(<< <<"conference", JStr("SEC")>>, <<"mascot", JStr("Tigers")>> >>)

SchedA == JDict(<< <<"id", JInt(401)>>, <<"season", JInt(2024)>>, <<"week", JInt(1)>>,
                   <<"start_date", JStr("2024-08-31T19:30:00Z")>>,
                   <<"home_team", JStr("Alabama")>>, <<"away_team", JStr("Auburn")>>,
                   <<"home_points", JInt(0)>> >>)
SchedTbd == JDict(<< <<"id", JInt(402)>>, <<"start_date", JStr("TBD")>>,
                     <<"home_team", JStr("Georgia")>>, <<"venue", JStr("Sanford Stadium")>> >>)
SchedIntDate == JDict(<< <<"id", JInt(403)>>, <<"start_date", JInt(20240831)>>,
                         <<"week", JInt(2)>> >>)
SchedNoId == JDict(<< <<"season", JInt(2024)>>, <<"start_date", JStr("2024-08-31")>> >>)

StatA == JDict(<< <<"team", JStr("Alabama")>>,
                  <<"stats", JDict(<< <<"totalYards", JInt(400)>>, <<"sacks", JInt(2)>>,
                                      <<"turnovers", JInt(0)>> >>)>> >>)
StatB == JDict(<< <<"team", JStr("Auburn")>>,
                  <<"stats", JDict(<< <<"totalYards", JInt(350)>> >>)>> >>)
StatNoTeam == JDict(<< <<"stats", JDict(<< <<"totalYards", JInt(100)>> >>)>> >>)
StatNoStats == JDict(<< <<"team", JStr("Georgia")>> >>)
StatNullStats == JDict(<< <<"team", JStr("LSU")>>, <<"stats", JNull>> >>)

Outcome(name, price, point) ==
    JDict(<< <<"name", JStr(name)>>, <<"price", JInt(price)>>, <<"point", JInt(point)>> >>)
Market(key, outcomes) ==
    JDict(<< <<"key", JStr(key)>>, <<"outcomes", JList(outcomes)>> >>)
SpreadHome == Outcome("Alabama", -110, -7)
SpreadAway == Outcome("Auburn", -105, 7)
Over  == Outcome("Over", -108, 52)
Under == Outcome("Under", -112, 52)

BkFull == JDict(<< <<"key", JStr("draftkings")>>,
                   <<"markets", JList(<< Market("spreads", <<SpreadAway, SpreadHome>>),
                                         Market("totals", <<Over, Under>>) >>)>> >>)
BkTotals == JDict(<< <<"key", JStr("fanduel")>>,
                     <<"markets", JList(<< Market("totals", <<Under, Over>>) >>)>> >>)
BkSpreads == JDict(<< <<"key", JStr("betmgm")>>,
                      <<"markets", JList(<< Market("spreads", <<SpreadHome, SpreadAway>>) >>)>> >>)
BkNoMarkets == JDict(<< <<"key", JStr("bovada")>> >>)

OddsGame(time, bookmakers) ==
    JDict(<< <<"home_team", JStr("Alabama")>>, <<"away_team", JStr("Auburn")>>,
             <<"commence_time", JStr(time)>>, <<"bookmakers", JList(bookmakers)>> >>)
OddsA == OddsGame("2024-08-31T19:30:00Z", <<BkFull, BkTotals>>)
OddsB == OddsGame("TBD", <<BkSpreads>>)
OddsNoBooks == JDict(<< <<"home_team", JStr("Georgia")>>, <<"away_team", JStr("LSU")>> >>)
OddsBadBook == OddsGame("2024-08-31", <<BkNoMarkets, JInt(3)>>)

\* an error object in place of the array
ErrorObject == JDict(<< <<"message", JStr("Unauthorized")>> >>)

NormMethods == { "collect_teams_data", "collect_schedule", "collect_game_stats",
                 "collect_betting_lines" }

\* the elements an upstream array of the method is drawn from
Elements(f) ==
    CASE f = "collect_teams_data"    -> { TeamA, TeamC, TeamNoSchool, JInt(7) }
      [] f = "collect_schedule"      -> { SchedA, SchedTbd, SchedIntDate, SchedNoId,
                                          JStr("x") }
      [] f = "collect_game_stats"    -> { StatA, StatB, StatNoTeam, StatNoStats,
                                          StatNullStats }
      [] f = "collect_betting_lines" -> { OddsA, OddsB, OddsNoBooks, OddsBadBook,
                                          JInt(9) }

SeqsUpTo(S, n) == UNION { [1..k -> S] : k \in 0..n }

NormPayloads(f) ==
    { JList(xs) : xs \in SeqsUpTo(Elements(f), MaxItems) } \cup { ErrorObject }

NormResponses(f) ==
    { HttpResponse(200, b) : b \in NormPayloads(f) } \cup { HttpResponse(503, JNull) }

NormArgs == [season |-> 2024, week |-> 0, game_id |-> 401]

NormCollect ==
    /\ nCalls < MaxNormCalls
    /\ Awaited
    /\ \E f \in NormMethods : CollectCall(f, WithConfig(NormArgs), TRUE)
    /\ UNCHANGED <<nTicks, keyVars, obsVars, pipeVars>>

NormResume ==
    /\ ~Awaited
    /\ \E resp \in NormResponses(pending.f) : CollectResume(TRUE, resp)
    /\ UNCHANGED <<nTicks, keyVars, obsVars, pipeVars>>

NormInit == CollInit /\ KeyIdle /\ PipeIdle

NormNext == NormCollect \/ NormResume

NormSpec == NormInit /\ [][NormNext]_vars

----------------------------------------------------------------------------
(* C1: two parameter mappings holding the same key-value pairs, whatever    *)
(* their insertion order, give the same cache key for the same URL.         *)
C1_KeyCanonical ==
    (kPc = "done" /\ kUrl1 = kUrl2 /\ ItemSet(kParams1) = ItemSet(kParams2))
        => kKey1 = kKey2

\* the keys of two different insertion orders of the same two items
C1_Witness ==
    /\ kPc = "done"
    /\ kUrl1 = kUrl2
    /\ Len(kParams1) = 2
    /\ kParams1 # kParams2
    /\ ItemSet(kParams1) = ItemSet(kParams2)
    /\ kKey1 = kKey2

----------------------------------------------------------------------------
(* C2: with a reachable cache store, a fetch that succeeds with HTTP 200    *)
(* followed by an identical fetch (same cache key) within the TTL issues    *)
(* exactly one network call in total: the second fetch is a cache hit and   *)
(* returns the payload of the entry the first one wrote.                    *)
C2_SecondFetchFromCache ==
    ( /\ nCalls >= 2
      /\ prev.outcome = "ok" /\ prev.writes = 1
      /\ last.key = prev.key
      /\ ~last.readErr
      /\ last.executedAt < prev.returnedAt + Secs(CACHE_TTL) )
    => /\ last.hit
       /\ prev.net + last.net = 1
       /\ last.result = prev.result

\* the second, identical fetch one second before the entry expires
C2_Witness ==
    /\ nCalls = 2
    /\ prev.outcome = "ok" /\ prev.writes = 1
    /\ last.key = prev.key
    /\ last.executedAt = prev.returnedAt + Secs(CACHE_TTL - 1)
    /\ last.hit /\ last.net = 0
    /\ Truthy(last.result)

----------------------------------------------------------------------------
(* C3 as claimed: a collect call answered from the cache consumes no rate   *)
(* budget of its limiter and makes no network call.                         *)
C3_HitsAreFree ==
    last.hit => (last.budgetUsed = 0 /\ last.net = 0)

(* C3 as amended: a collect call answered from the cache makes no network   *)
(* call and no cache write, but it does consume one unit of its method's    *)
(* rate budget: the limiter counts the call on entry, before the cache is   *)
(* consulted, on a hit as on a miss.                                        *)
C3_HitsCostBudget ==
    /\ last.hit => (last.net = 0 /\ last.writes = 0)
    /\ last.f # "" => (last.budgetUsed >= 1 /\ numCalls[last.f] >= 1)

\* two calls of one method in one window, the second a cache hit, both counted
C3_Witness ==
    /\ nCalls = 2
    /\ prev.f = last.f
    /\ ~prev.hit /\ last.hit
    /\ clock < Secs(CFBD_PERIOD)
    /\ numCalls[last.f] = 2

----------------------------------------------------------------------------
\* what the fetch of a call record returns against an empty, working store
ColdFetch(rec) ==
    FetchData(<<>>, rec.executedAt, rec.req.url, rec.req.params,
              FALSE, FALSE, rec.resp)

(* C9: a fetch whose cache read fails (and whose cache write fails, if it   *)
(* comes to one) goes to the network and returns what the same upstream     *)
(* response gives against a cold, working cache: the same payload or the    *)
(* same failure; a cache error never makes the fetch fail.                  *)
C9_CacheNotNeeded ==
    \A rec \in {prev, last} :
        /\ (rec.f # "" /\ rec.readErr) =>
              /\ rec.net = 1
              /\ rec.result = ColdFetch(rec).result
              /\ rec.outcome = ColdFetch(rec).outcome
              /\ rec.out = Normalize(rec.f, ColdFetch(rec).result)
        /\ rec.writeErr => (rec.outcome = "ok" /\ rec.result = rec.resp.body)

\* a run of two identical, successful requests in which every cache
\* operation failed: both went to the network and returned the payload
C9_Witness ==
    /\ nCalls = 2
    /\ prev.readErr /\ prev.writeErr /\ last.readErr /\ last.writeErr
    /\ prev.key = last.key
    /\ cache = <<>>
    /\ prev.net = 1 /\ last.net = 1
    /\ Truthy(prev.result) /\ Truthy(last.result)

----------------------------------------------------------------------------
(* C10: collect_teams_data called twice in succession against a cold cache, *)
(* the store working and the upstream answering 200: the first call makes   *)
(* 1 network call and 1 cache write, the second makes 0 network calls and   *)
(* 0 cache writes and is 1 cache hit, and both return the same normalized   *)
(* output.                                                                  *)
C10_TeamsTwice ==
    ( /\ nCalls = 2
      /\ prev.f = "collect_teams_data" /\ last.f = "collect_teams_data"
      /\ last.issuedAt = prev.returnedAt
      /\ ~prev.readErr /\ ~prev.writeErr /\ ~last.readErr
      /\ prev.resp.kind = "http" /\ prev.resp.status = 200 )
    => /\ prev.net = 1 /\ prev.writes = 1 /\ ~prev.hit
       /\ last.net = 0 /\ last.writes = 0 /\ last.hit
       /\ last.out = prev.out

\* the scenario with a payload of two teams
C10_Witness ==
    /\ nCalls = 2
    /\ prev.f = "collect_teams_data" /\ last.f = "collect_teams_data"
    /\ last.issuedAt = prev.returnedAt
    /\ prev.net = 1 /\ prev.writes = 1
    /\ last.hit /\ last.net = 0 /\ last.writes = 0
    /\ last.out = prev.out
    /\ last.out.raised = "" /\ Len(last.out.value.list) = 2

----------------------------------------------------------------------------
(* C4: in every budget window, the network calls made to one endpoint group *)
(* by all its collect methods together never exceed the group's maximum:    *)
(* 50 per 60 s for the stats provider, 450 per 3600 s for the odds provider.*)
C4_GroupBudget ==
    \A g \in Groups : netCount[g] <= GroupCalls(g)

----------------------------------------------------------------------------
(* C5: a collect call that is issued as the (max+1)th or a later call to    *)
(* its endpoint group within one budget window is not executed before that  *)
(* window has rolled over, and it is executed then: it reaches the network  *)
(* and no rate-limit error comes back to the caller.                        *)
C5_OverBudgetDelayed ==
    (last.f # "" /\ last.nth > GroupCalls(Group(last.f)))
    => /\ last.executedAt >= last.win + Secs(GroupPeriod(Group(last.f)))
       /\ last.net = 1
       /\ last.out.raised = ""

----------------------------------------------------------------------------
\* what the call of `method` with argument `arg` did in this run, "" if it
\* was not attempted
OutcomeOf(st, method, arg) ==
    IF \E j \in 1..Len(st.log) :
          st.log[j].op = "collect" /\ st.log[j].method = method /\ st.log[j].arg = arg
    THEN LET j == CHOOSE j \in 1..Len(st.log) :
                     /\ st.log[j].op = "collect"
                     /\ st.log[j].method = method
                     /\ st.log[j].arg = arg
         IN  st.log[j].outcome
    ELSE ""

RECURSIVE SucceededRecords(_, _, _, _)
\* the records of the items from..to of a weekly batch that succeeded, in order
SucceededRecords(st, method, from, to) ==
    IF from > to THEN <<>>
    ELSE (IF OutcomeOf(st, method, from) = "ok"
          THEN Records(st.season, method, from) ELSE <<>>)
         \o SucceededRecords(st, method, from + 1, to)

Raises(st) == { j \in 1..Len(st.log) : st.log[j].outcome = "raise" }

\* the weekly batches of the collection method st runs: the key the list
\* is stored under, the method called for each week, the number of weeks
WeeklyBatches(st) ==
    CASE st.entry = "collect_comprehensive_data" ->
            { [key |-> "weekly_team_stats", method |-> "collect_team_game_stats",
               weeks |-> WEEKLY_WEEKS],
              [key |-> "player_game_stats_sample",
               method |-> "collect_player_game_stats", weeks |-> SAMPLE_WEEKS] }
      [] st.entry = "collect_detailed_game_data" ->
            { [key |-> "weekly_team_stats", method |-> "collect_team_game_stats",
               weeks |-> st.maxWeeks],
              [key |-> "player_game_stats",
               method |-> "collect_player_game_stats", weeks |-> st.maxWeeks] }
      [] OTHER -> {}

(* C6: in a batch of per-item collect calls (the weeks of a weekly batch,  *)
(* the stat categories) where items fail, every item of the batch is       *)
(* still attempted, the result holds the records of all the items that     *)
(* did not fail, and no exception leaves or ends the batch.                *)
C6_FailureIsolated ==
    /\ Raises(run) = {} => ~run.handled /\ run.status # "escaped"
    /\ (run.status = "returned" /\ ~run.handled) =>
         /\ \A i \in 1..Len(ProgramOf(run)) :
               ProgramOf(run)[i].op = "collect" =>
                  LET ins == ProgramOf(run)[i]
                  IN  /\ OutcomeOf(run, ins.method, ins.arg) # ""
                      /\ ins.key # "" =>
                            DataGet(run.collected, ins.key)
                              = JList(SucceededRecords(run, ins.method,
                                                       ins.arg, ins.arg))
         /\ \A b \in WeeklyBatches(run) :
               /\ b.key \in DOMAIN run.collected
               /\ run.collected[b.key]
                    = JList(SucceededRecords(run, b.method, 1, b.weeks))

\* the provider answered week 3 of the weekly team batch of
\* collect_comprehensive_data with 503: the call returned nothing, the
\* other 14 weeks were still called and their records are in the result
C6_Witness ==
    /\ run.entry = "collect_comprehensive_data"
    /\ run.status = "returned"
    /\ ~run.handled
    /\ OutcomeOf(run, "collect_team_game_stats", 3) = "fail"
    /\ OutcomeOf(run, "collect_team_game_stats", WEEKLY_WEEKS) = "ok"
    /\ numCalls["collect_team_game_stats"] = WEEKLY_WEEKS
    /\ Len(DataGet(run.collected, "weekly_team_stats").list) = 2 * (WEEKLY_WEEKS - 1)

(* C7: when an exception is raised while item k of a weekly batch is being *)
(* processed, the data the season-level collection returns contains the    *)
(* records accumulated for the items 1..k-1 of that batch.                 *)
C7_PartialKept ==
    (/\ run.status = "returned"
     /\ run.handled
     /\ run.log[Len(run.log)].method = "collect_team_game_stats"
     /\ run.log[Len(run.log)].outcome = "raise")
    => DataGet(run.collected, "weekly_team_stats")
         = JList(SucceededRecords(run, "collect_team_game_stats", 1,
                                  run.log[Len(run.log)].arg - 1))

(* C8: whatever step fails inside one season, the season-level operation   *)
(* returns, run_full_ingestion goes on with the remaining seasons, and at  *)
(* its end every configured season has an entry in the result.             *)
C8_EverySeasonHasEntry ==
    /\ ingestPc # "aborted"
    /\ run.status # "escaped"
    /\ DOMAIN allData = { Seasons[i] : i \in 1..seasonIx }
    /\ ingestPc \in { "done", "summary_failed" } => seasonIx = Len(Seasons)

\* the run is over; the first file of the first season could not be
\* written, so that season's entry holds the teams only, the later seasons
\* are complete, and all five seasons have an entry
C8_Witness ==
    /\ ingestPc = "done"
    /\ env.faults = 1
    /\ DOMAIN allData = { Seasons[i] : i \in 1..Len(Seasons) }
    /\ DOMAIN allData[Seasons[1]] = { "teams" }
    /\ \A i \in 2..Len(Seasons) :
          "player_game_stats_sample" \in DOMAIN allData[Seasons[i]]
    /\ nCalls = 1 + 30 * (Len(Seasons) - 1)

----------------------------------------------------------------------------
(* C11: a fetch whose network call returns a non-200 status returns failure *)
(* (None) to its caller, makes exactly one network call, and writes nothing *)
(* to the cache: the cache content after the fetch is the content before.   *)
C11_Non200NoRetryNoWrite ==
    [][ (CallReturns /\ last'.resp.kind = "http" /\ last'.resp.status # 200)
        => /\ last'.result = JNull
           /\ last'.net = 1
           /\ last'.writes = 0
           /\ cache' = cache ]_vars

\* a 503 for a request whose earlier, expired cache entry is still as the
\* first fetch wrote it
C11_Witness ==
    /\ nCalls = 2
    /\ prev.outcome = "ok" /\ prev.writes = 1
    /\ last.key = prev.key
    /\ last.resp = HttpResponse(503, JNull)
    /\ last.result = JNull /\ last.net = 1 /\ last.writes = 0
    /\ cache[last.key].data = Dumps(prev.result)

----------------------------------------------------------------------------
ConnectionLevel == { ConnError, Timeout }

(* C12 as claimed: a connection-level error makes the fetch return failure  *)
(* and the outcome of the fetch tells it apart from a non-200 response.     *)
C12_OutcomeTellsApart ==
    ( /\ nCalls = 2
      /\ prev.resp.kind = "http" /\ prev.resp.status # 200
      /\ last.resp \in ConnectionLevel )
    => last.result # prev.result

(* C12 as amended: a connection-level error makes the fetch return None     *)
(* without raising and without a cache write, as a non-200 response does;   *)
(* the two kinds differ only in the error line the fetch logs, which is     *)
(* never the HTTP one for a connection-level error.                         *)
C12_ConnectionErrorLogged ==
    [][ (CallReturns /\ last'.resp \in ConnectionLevel)
        => /\ last'.result = JNull
           /\ last'.out.raised = ""
           /\ last'.net = 1
           /\ last'.writes = 0
           /\ cache' = cache
           /\ last'.outcome = IF last'.resp = ConnError THEN "connection_error"
                              ELSE "unexpected_error" ]_vars

\* a non-200 answer followed by a refused connection: both return None
C12_Witness ==
    /\ nCalls = 2
    /\ prev.resp = HttpResponse(503, JNull) /\ prev.outcome = "http_error"
    /\ last.resp = ConnError /\ last.outcome = "connection_error"
    /\ last.result = JNull /\ prev.result = JNull

----------------------------------------------------------------------------
\* the call of method f that the upstream answered with a 200
Answered(rec, f) ==
    rec.f = f /\ rec.resp.kind = "http" /\ rec.resp.status = 200

ArrayOfObjects(v) == IsList(v) /\ \A i \in 1..Len(v.list) : IsDict(v.list[i])

Keys(d) == { d.dict[i][1] : i \in 1..Len(d.dict) }

\* a team-stat entry: an object with a team name and, if it has 'stats', an
\* object of statistics
TeamStatEntry(e) ==
    /\ IsDict(e)
    /\ Truthy(DictGet(e, "team"))
    /\ "stats" \in Keys(e) => IsDict(DictGet(e, "stats"))

\* slot holds the extracted fields of entry e
HoldsEntry(slot, e) ==
    /\ IsDict(slot)
    /\ DictGet(slot, "team") = DictGet(e, "team")
    /\ \A i \in 1..Len(StatFields) :
          DictGet(slot, StatFields[i])
            = IF "stats" \in Keys(e) THEN DictGet(DictGet(e, "stats"), StatFields[i])
              ELSE JNull

(* C13: for a payload of exactly two team-stat entries, collect_game_stats  *)
(* returns a record with team_1 and team_2, team_1 holding the extracted    *)
(* fields of the first entry and team_2 those of the second, in either      *)
(* input order.                                                             *)
C13_PairedPositionally ==
    \A rec \in {prev, last} :
        ( /\ Answered(rec, "collect_game_stats")
          /\ IsList(rec.resp.body) /\ Len(rec.resp.body.list) = 2
          /\ \A i \in 1..2 : TeamStatEntry(rec.resp.body.list[i]) )
        => /\ rec.out.raised = ""
           /\ IsDict(rec.out.value)
           /\ Keys(rec.out.value) = { "team_1", "team_2" }
           /\ HoldsEntry(DictGet(rec.out.value, "team_1"), rec.resp.body.list[1])
           /\ HoldsEntry(DictGet(rec.out.value, "team_2"), rec.resp.body.list[2])

\* the entries of Auburn and Alabama, in this order
C13_Witness ==
    /\ Answered(last, "collect_game_stats")
    /\ last.resp.body = JList(<<StatB, StatA>>)
    /\ DictGet(DictGet(last.out.value, "team_1"), "team") = JStr("Auburn")
    /\ DictGet(DictGet(last.out.value, "team_2"), "team") = JStr("Alabama")
    /\ DictGet(DictGet(last.out.value, "team_2"), "sacks") = JInt(2)

----------------------------------------------------------------------------
(* C14: for every upstream payload, collect_game_stats returns either       *)
(* absent (None) or a record containing both team_1 and team_2; a payload   *)
(* with fewer than two usable team-stat entries yields absent.              *)
C14_NoPartialRecord ==
    \A rec \in {prev, last} :
        (rec.f = "collect_game_stats" /\ rec.out.raised = "")
        => \/ rec.out.value = JNull
           \/ /\ IsDict(rec.out.value)
              /\ { "team_1", "team_2" } \subseteq Keys(rec.out.value)

----------------------------------------------------------------------------
\* the fields the teams and schedule normalizers extract
TeamFields ==
    { "school", "conference", "division", "mascot", "abbreviation", "alt_name_1",
      "alt_name_2", "alt_name_3", "color", "alt_color", "logos" }
GameFields ==
    { "id", "season", "week", "season_type", "start_date", "home_team", "away_team",
      "home_points", "away_points", "venue", "venue_id", "neutral_site",
      "conference_game", "attendance" }

(* C15: in every normalizer, a field the upstream object omits appears in   *)
(* the normalized record as None, never as a substituted default value      *)
(* such as 0 or an empty collection.                                        *)
C15_OmittedIsNone ==
    \A rec \in {prev, last} :
        /\ ( /\ Answered(rec, "collect_teams_data")
             /\ ArrayOfObjects(rec.resp.body) /\ rec.out.raised = "" )
           => \A i \in 1..Len(rec.out.value.list) : \A k \in TeamFields :
                 k \notin Keys(rec.resp.body.list[i])
                    => DictGet(rec.out.value.list[i], k) = JNull
        /\ ( /\ Answered(rec, "collect_schedule")
             /\ ArrayOfObjects(rec.resp.body) /\ rec.out.raised = "" )
           => \A i \in 1..Len(rec.out.value.list) : \A k \in GameFields :
                 k \notin Keys(rec.resp.body.list[i])
                    => DictGet(rec.out.value.list[i], k) = JNull

----------------------------------------------------------------------------
(* C16: every record the team, schedule and game-stats normalizers return   *)
(* has its identifying key present (team name / game id); an upstream       *)
(* object without its identifying key is dropped from the output.           *)
C16_IdentityPresent ==
    \A rec \in {prev, last} :
        /\ (rec.f = "collect_teams_data" /\ rec.out.raised = "")
           => \A i \in 1..Len(rec.out.value.list) :
                 DictGet(rec.out.value.list[i], "school") # JNull
        /\ (rec.f = "collect_schedule" /\ rec.out.raised = "")
           => \A i \in 1..Len(rec.out.value.list) :
                 DictGet(rec.out.value.list[i], "id") # JNull
        /\ (rec.f = "collect_game_stats" /\ rec.out.raised = "" /\ IsDict(rec.out.value))
           => \A k \in Keys(rec.out.value) :
                 DictGet(DictGet(rec.out.value, k), "team") # JNull

----------------------------------------------------------------------------
\* the number of elements of an array that are objects
Objects(xs) == Cardinality({ i \in 1..Len(xs) : IsDict(xs[i]) })

(* C19: when one element of an upstream array is not an object, only that   *)
(* element is dropped: the normalizer does not raise and still returns the  *)
(* records of all sibling elements of the same response.                    *)
C19_MalformedIsolated ==
    \A rec \in {prev, last} :
        ( /\ rec.f \in { "collect_teams_data", "collect_betting_lines" }
          /\ rec.resp.kind = "http" /\ rec.resp.status = 200
          /\ IsList(rec.resp.body) )
        => /\ rec.out.raised = ""
           /\ rec.f = "collect_teams_data"
                => Len(rec.out.value.list) = Objects(rec.resp.body.list)

----------------------------------------------------------------------------
RECURSIVE Pairs(_)
\* the (game, bookmaker) pairs of a payload, in upstream order
Pairs(games) ==
    IF games = <<>> THEN <<>>
    ELSE LET g  == Head(games)
             bs == DictGetOr(g, "bookmakers", JList(<<>>)).list
         IN  [i \in 1..Len(bs) |-> [game |-> g, bookmaker |-> bs[i]]]
             \o Pairs(Tail(games))

\* the markets of bookmaker b with the given key
MarketsOf(b, key) ==
    LET ms == DictGetOr(b, "markets", JList(<<>>)).list
    IN  { ms[i] : i \in { j \in 1..Len(ms) : DictGet(ms[j], "key") = JStr(key) } }

\* the outcomes of market m with the given name
OutcomesNamed(m, name) ==
    LET os == DictGetOr(m, "outcomes", JList(<<>>)).list
    IN  { os[i] : i \in { j \in 1..Len(os) : DictGet(os[j], "name") = name } }

(* C17: collect_betting_lines returns exactly one record per (game,         *)
(* bookmaker) pair of the payload, in upstream order; spread_point and      *)
(* spread_home_price come from the spreads outcome whose name is the game's *)
(* home_team, total_point from the Over outcome; for a bookmaker without    *)
(* the spreads (totals) market all spread (total) fields are absent.        *)
C17_OneLinePerBookmaker ==
    \A rec \in {prev, last} :
        ( /\ Answered(rec, "collect_betting_lines")
          /\ IsList(rec.resp.body)
          /\ rec.out.raised = "" )
        => LET pairs == Pairs(rec.resp.body.list)
               lines == rec.out.value.list
           IN  /\ Len(lines) = Len(pairs)
               /\ \A i \in 1..Len(pairs) :
                     LET g == pairs[i].game
                         b == pairs[i].bookmaker
                         line == lines[i]
                     IN  /\ DictGet(line, "home_team") = DictGet(g, "home_team")
                         /\ DictGet(line, "away_team") = DictGet(g, "away_team")
                         /\ DictGet(line, "bookmaker") = DictGet(b, "key")
                         /\ \A m \in MarketsOf(b, "spreads") :
                            \A o \in OutcomesNamed(m, DictGet(g, "home_team")) :
                               /\ DictGet(line, "spread_point") = DictGet(o, "point")
                               /\ DictGet(line, "spread_home_price") = DictGet(o, "price")
                         /\ \A m \in MarketsOf(b, "totals") :
                            \A o \in OutcomesNamed(m, JStr("Over")) :
                               DictGet(line, "total_point") = DictGet(o, "point")
                         /\ MarketsOf(b, "spreads") = {}
                               => \A k \in { "spread_point", "spread_home_price",
                                             "spread_away_price" } :
                                     DictGet(line, k) = JNull
                         /\ MarketsOf(b, "totals") = {}
                               => \A k \in { "total_point", "total_over_price",
                                             "total_under_price" } :
                                     DictGet(line, k) = JNull

\* two games with three bookmakers: the second one has no spreads market
C17_Witness ==
    /\ Answered(last, "collect_betting_lines")
    /\ last.resp.body = JList(<<OddsA, OddsB>>)
    /\ Len(last.out.value.list) = 3
    /\ DictGet(last.out.value.list[1], "spread_point") = JInt(-7)
    /\ DictGet(last.out.value.list[2], "bookmaker") = JStr("fanduel")
    /\ DictGet(last.out.value.list[2], "spread_point") = JNull
    /\ DictGet(last.out.value.list[2], "total_point") = JInt(52)
    /\ DictGet(last.out.value.list[3], "bookmaker") = JStr("betmgm")
    /\ DictGet(last.out.value.list[3], "total_point") = JNull

----------------------------------------------------------------------------
\* a start_date that parses: a str that, with every 'Z' written as
\* '+00:00', datetime.fromisoformat accepts
IsoDate(v) ==
    IsStr(v) /\ FromIsoFormat(ReplaceZ(v.str)).raised = ""

(* C18: for every schedule payload, collect_schedule emits one record per   *)
(* upstream game whether or not its start_date parses; a game whose         *)
(* start_date cannot be parsed gets an absent start_date and all its other  *)
(* fields unchanged.                                                        *)
C18_BadDateKeepsGame ==
    \A rec \in {prev, last} :
        (Answered(rec, "collect_schedule") /\ ArrayOfObjects(rec.resp.body))
        => /\ rec.out.raised = ""
           /\ Len(rec.out.value.list) = Len(rec.resp.body.list)
           /\ \A i \in 1..Len(rec.resp.body.list) :
                 LET game == rec.resp.body.list[i]
                     record == rec.out.value.list[i]
                 IN  /\ IF IsoDate(DictGet(game, "start_date"))
                        THEN DictGet(record, "start_date")
                               = FromIsoFormat(ReplaceZ(
                                    DictGet(game, "start_date").str)).value
                        ELSE DictGet(record, "start_date") = JNull
                     /\ \A k \in GameFields \ { "start_date" } :
                           DictGet(record, k) = DictGet(game, k)

\* a game with start_date "TBD" ahead of a game whose date parses: both
\* are emitted, the first without a date and with its venue
C18_Witness ==
    /\ Answered(last, "collect_schedule")
    /\ last.resp.body = JList(<<SchedTbd, SchedA>>)
    /\ Len(last.out.value.list) = 2
    /\ DictGet(last.out.value.list[1], "start_date") = JNull
    /\ DictGet(last.out.value.list[1], "venue") = JStr("Sanford Stadium")
    /\ DictGet(last.out.value.list[2], "start_date") = JDate("2024-08-31 19:30:00+00:00")

----------------------------------------------------------------------------
(* C20: for the teams and schedule transforms and every payload that is an  *)
(* array of objects, the i-th output record is the normalization of the     *)
(* i-th upstream object.                                                    *)
C20_OrderPreserved ==
    \A rec \in {prev, last} :
        /\ (Answered(rec, "collect_teams_data") /\ ArrayOfObjects(rec.resp.body))
           => /\ rec.out.raised = ""
              /\ Len(rec.out.value.list) = Len(rec.resp.body.list)
              /\ \A i \in 1..Len(rec.resp.body.list) :
                    rec.out.value.list[i] = TeamDict(rec.resp.body.list[i])
        /\ (Answered(rec, "collect_schedule") /\ ArrayOfObjects(rec.resp.body))
           => /\ rec.out.raised = ""
              /\ Len(rec.out.value.list) = Len(rec.resp.body.list)
              /\ \A i \in 1..Len(rec.resp.body.list) :
                    rec.out.value.list[i] = GameDict(rec.resp.body.list[i])

\* two different games: the output has their ids in the upstream order
C20_Witness ==
    /\ Answered(last, "collect_schedule")
    /\ last.resp.body = JList(<<SchedIntDate, SchedA>>)
    /\ Len(last.out.value.list) = 2
    /\ DictGet(last.out.value.list[1], "id") = JInt(403)
    /\ DictGet(last.out.value.list[2], "id") = JInt(401)

----------------------------------------------------------------------------
\* the records of a weekly list are in the order week, then position in
\* the call's return value: each record comes before its successor in that
\* order, and so before every later record
InBatchOrder(d) ==
    \A p \in 1..(Len(d) - 1) :
        LET a == d[p]
            b == d[p + 1]
        IN  \/ DictGet(a, "week").int < DictGet(b, "week").int
            \/ /\ DictGet(a, "week") = DictGet(b, "week")
               /\ DictGet(a, "id").int < DictGet(b, "id").int

(* C21: in the accumulated result of a weekly batch, while it is built and *)
(* once it is stored, all records of week i come before all records of    *)
(* week j when i < j, and the records of one week keep the order in which *)
(* the per-item call returned them.                                       *)
C21_BatchOrderPreserved ==
    /\ InBatchOrder(run.acc)
    /\ \A b \in WeeklyBatches(run) : InBatchOrder(DataGet(run.collected, b.key).list)

\* the season returned with the records of week 1 first and those of the
\* last week last in the weekly team batch, one week in between failed
C21_Witness ==
    /\ run.entry = "collect_comprehensive_data"
    /\ run.status = "returned"
    /\ Faults(run) = 1
    /\ LET d == DataGet(run.collected, "weekly_team_stats").list
       IN  /\ Len(d) = 2 * (WEEKLY_WEEKS - 1)
           /\ d[1] = Item(run.season, 1, "", 1)
           /\ d[2] = Item(run.season, 1, "", 2)
           /\ d[Len(d)] = Item(run.season, WEEKLY_WEEKS, "", 2)

----------------------------------------------------------------------------
(* The wait specification: several tasks of one event loop calling the     *)
(* decorated methods.  A task that is to call a method stands in the       *)
(* ready queue of the loop, which runs its tasks first in, first out, one  *)
(* at a time.  The step of a task takes the call through the wrappers and, *)
(* once granted, through the method body up to its first suspension (the   *)
(* cache lookup and, on a miss, session.get).  A caller whose attempt is   *)
(* over the maximum sleeps in sleep_and_retry (time.sleep, which holds the *)
(* only thread of the event loop) and tries again when it wakes.           *)

\* callers in one run
MaxWaitCalls == 52
\* tasks the driver has under way at a time: ready to run, or suspended
\* with a request in flight
MaxReady == 2

WaitMethods == { "collect_team_game_stats" }

WaitArgs == WithConfig([season |-> 2024, week |-> 1, category |-> ""])

\* another caller can enter a wrapper while callers are asleep in one
CanArriveWhileSleeping(w) == TRUE

\* A caller can enter a wrapper only while no caller sleeps in one: a
\* sleeping caller is inside time.sleep, and no other task runs meanwhile.
CanArrive(w) == w.waiting = {}

\* the callers that have arrived and hold no permit yet: those asleep in a
\* wrapper and those whose task stands in the ready queue
Waiters(w) == w.waiting \cup { w.ready[i] : i \in 1..Len(w.ready) }

\* the callers' record after caller c made attempt a at time now
Attempted(w, c, a, now) ==
    IF a.raised
    THEN [w EXCEPT !.waiting = (@ \ {c})
                       \cup { [c EXCEPT !.wakeAt = now + a.periodRemaining] }]
    ELSE [w EXCEPT !.waiting = @ \ {c}, !.lastGrant = c.id,
                   !.lastSlept = now - c.since]

\* The callers' record after the granted call of method f with arguments
\* args ran its body to the first suspension at time now: _fetch_data reads
\* the store, returns on a hit (the call completes without suspending) and
\* awaits session.get on a miss.
EnteredWith(w, c, f, args, now) ==
    LET req == Request(f, args)
        got == RedisGet(c, CacheKey(req.url, req.params), now)
    IN  IF got.found /\ got.data # ""
        THEN [w EXCEPT !.reads = @ + 1, !.done = @ + 1]
        ELSE [w EXCEPT !.reads = @ + 1, !.sent = @ + 1,
                       !.inflight = [@ EXCEPT ![f] = @ + 1]]

\* requests in flight in callers' record w
InFlight(w) == SumOver(w.inflight, WaitMethods)

\* a task that is to call a decorated method is made ready: the caller
\* arrives behind the tasks that are ready already
WaitSpawn ==
    /\ nCalls < MaxWaitCalls
    /\ CanArrive(wait)
    /\ Len(wait.ready) + InFlight(wait) < MaxReady
    /\ \E f \in WaitMethods :
          wait' = [wait EXCEPT !.arrived = @ + 1,
                               !.ready = Append(@, [id |-> wait.arrived + 1,
                                                    f |-> f, since |-> clock,
                                                    wakeAt |-> clock])]
    /\ nCalls' = nCalls + 1
    /\ UNCHANGED <<clock, numCalls, lastReset, cache, netCount, winStart,
                   issued, issuedWin, prev, last, nTicks, pending,
                   keyVars, obsVars, pipeVars>>

\* the event loop runs the task at the head of its ready queue: the call
\* passes through the wrappers and, when granted, runs the body to
\* session.get
WaitArrive ==
    /\ CanArrive(wait)
    /\ wait.ready # <<>>
    /\ LET c == Head(wait.ready)
           a == Limits(c.f, numCalls[c.f], lastReset[c.f], clock)
           w == Attempted([wait EXCEPT !.ready = Tail(@)], c, a, clock)
       IN  /\ numCalls' = [numCalls EXCEPT ![c.f] = a.numCalls]
           /\ lastReset' = [lastReset EXCEPT ![c.f] = a.lastReset]
           /\ wait' = IF a.raised THEN w
                      ELSE EnteredWith(w, cache, c.f, WaitArgs, clock)
    /\ UNCHANGED <<clock, cache, netCount, winStart, issued, issuedWin,
                   prev, last, nCalls, nTicks, pending, keyVars, obsVars,
                   pipeVars>>

\* time.sleep(period_remaining) returns and the caller tries again; when
\* granted it runs the body to session.get
WaitWake ==
    /\ \E c \in wait.waiting :
          /\ \A d \in wait.waiting : c.wakeAt <= d.wakeAt
          /\ LET now == IF c.wakeAt > clock THEN c.wakeAt ELSE clock
                 a   == Limits(c.f, numCalls[c.f], lastReset[c.f], now)
                 w   == Attempted(wait, c, a, now)
             IN  /\ clock' = now
                 /\ numCalls' = [numCalls EXCEPT ![c.f] = a.numCalls]
                 /\ lastReset' = [lastReset EXCEPT ![c.f] = a.lastReset]
                 /\ wait' = IF a.raised THEN w
                            ELSE EnteredWith(w, cache, c.f, WaitArgs, now)
    /\ UNCHANGED <<cache, netCount, winStart, issued, issuedWin, prev, last,
                   nCalls, nTicks, pending, keyVars, obsVars, pipeVars>>

\* the event loop resumes a task whose response has arrived: status 200,
\* response.json(), setex, return
WaitComplete ==
    /\ CanArrive(wait)
    /\ \E f \in WaitMethods :
          /\ wait.inflight[f] > 0
          /\ LET req == Request(f, WaitArgs)
             IN  cache' = RedisSetex(cache, CacheKey(req.url, req.params),
                                     CACHE_TTL, Dumps(Answer(f, WaitArgs)), clock)
          /\ wait' = [wait EXCEPT !.inflight = [@ EXCEPT ![f] = @ - 1],
                                  !.done = @ + 1]
    /\ UNCHANGED <<clock, numCalls, lastReset, netCount, winStart, issued,
                   issuedWin, prev, last, nCalls, nTicks, pending,
                   keyVars, obsVars, pipeVars>>

\* time passes between the decoration of the methods, when the limiter's
\* first window begins, and the arrival of the first caller
WaitTick ==
    /\ nTicks < MaxTicks
    /\ wait.arrived = 0
    /\ \E d \in RateTicks : clock' = clock + Secs(d)
    /\ nTicks' = nTicks + 1
    /\ UNCHANGED <<numCalls, lastReset, cache, netCount, winStart, issued,
                   issuedWin, prev, last, nCalls, wait, pending,
                   keyVars, obsVars, pipeVars>>

WaitInit == CollInit /\ KeyIdle /\ PipeIdle

WaitNext == WaitSpawn \/ WaitArrive \/ WaitWake \/ WaitComplete \/ WaitTick

\* The event loop goes on while it has something to do: time.sleep
\* returns, a task that is ready is run, a request in flight is answered.
WaitSpec ==
    /\ WaitInit /\ [][WaitNext]_vars
    /\ WF_vars(WaitWake \/ WaitArrive \/ WaitComplete)

\* caller c has arrived and holds no permit yet in callers' record w
WaitsIn(w, c) == \E d \in Waiters(w) : d.id = c.id

(* C22: among the callers waiting for a budget no caller is overtaken:     *)
(* every caller that waits, asleep in a wrapper or ready behind a sleeping *)
(* one, arrived after every caller that has been granted so far; permits   *)
(* go out in ascending order of arrival (first in, first out) and a caller *)
(* stops waiting only by being granted its own; and whenever callers wait, *)
(* a time comes when none of them waits any more, so every waiting caller  *)
(* is eventually granted its permit.                                       *)
C22_NoStarvation ==
    /\ [](\A c \in Waiters(wait) : c.id > wait.lastGrant)
    /\ [][ /\ wait'.lastGrant >= wait.lastGrant
           /\ \A c \in Waiters(wait) :
                 WaitsIn(wait', c) \/ wait'.lastGrant = c.id ]_vars
    /\ (Waiters(wait) # {}) ~> (Waiters(wait) = {})

\* the 51st caller of the method found the budget used up and slept to the
\* end of the window; the 52nd, ready behind it since before the sleep
\* began, waited as long and was granted its permit after it, from the new
\* window
C22_Witness ==
    /\ Waiters(wait) = {}
    /\ wait.arrived = CFBD_CALLS + 2
    /\ wait.lastGrant = CFBD_CALLS + 2
    /\ numCalls["collect_team_game_stats"] = 2
    /\ lastReset["collect_team_game_stats"] = Secs(CFBD_PERIOD)
    /\ wait.lastSlept = Secs(CFBD_PERIOD)
    /\ clock = Secs(CFBD_PERIOD)
    /\ wait.reads = CFBD_CALLS + 2
    /\ wait.sent = 1
    /\ wait.done = CFBD_CALLS + 2

----------------------------------------------------------------------------
(* The cancellation specification: a collection method as in the batch     *)
(* specification, with the user's interrupt arriving at an await: inside   *)
(* a fetch or inside a pacing sleep.                                       *)

\* the interrupt arrives while the call is suspended in session.get
CancelResume ==
    /\ run.status = "running"
    /\ ~Awaited
    /\ CollectResume(env.storeDown, Cancelled)
    /\ run' = StepSeason(run, last'.out)
    /\ UNCHANGED <<nTicks, allData, seasonIx, ingestPc, env, keyVars, obsVars>>

\* the interrupt arrives d tenths of a second into a pacing sleep
CancelSleep ==
    /\ run.status = "running"
    /\ ProgramOf(run)[run.pc].op = "sleep"
    /\ \E d \in 0..ProgramOf(run)[run.pc].tenths :
          /\ run' = StepSeason(run, Raised("CancelledError"))
          /\ clock' = clock + d
    /\ UNCHANGED <<numCalls, lastReset, cache, netCount, winStart, issued,
                   issuedWin, prev, last, nCalls, nTicks, wait, pending,
                   allData, seasonIx, ingestPc, env, keyVars, obsVars>>

CancelInit == BatchInit

CancelNext == BatchNext \/ CancelResume \/ CancelSleep

CancelSpec == CancelInit /\ [][CancelNext]_vars

\* the user's interrupt has arrived in this batch
InterruptArrived ==
    \E j \in 1..Len(run.log) : run.log[j].outcome = "interrupt"

(* C23: once the user's interrupt has arrived in a batch, no further       *)
(* collect call (and so no network request) of the batch is made and the   *)
(* cache stays as it is; and in every step each cache key holds its        *)
(* previous entry or the complete payload of the response that has just    *)
(* been written under it.                                                  *)
C23_Cancellation ==
    [][/\ InterruptArrived => nCalls' = nCalls /\ cache' = cache /\ run' = run
       /\ \A key \in DOMAIN cache' :
             \/ key \in DOMAIN cache /\ cache'[key] = cache[key]
             \/ /\ last'.outcome = "ok"
                /\ key = last'.key
                /\ Loads(cache'[key].data) = last'.resp.body]_vars

\* the interrupt arrived inside the fetch of week 3 of the weekly team
\* batch: the request was in flight, the weeks 1 and 2 are cached, week 3
\* is not, and the run has ended
C23_Witness ==
    /\ run.entry = "collect_comprehensive_data"
    /\ run.status = "escaped"
    /\ InterruptArrived
    /\ last.f = "collect_team_game_stats"
    /\ last.outcome = "cancelled"
    /\ last.net = 1
    /\ last.req.params = << <<"year", PyInt(run.season)>>, <<"week", PyInt(3)>> >>
    /\ last.key \notin DOMAIN cache
    /\ CacheKey(last.req.url, << <<"year", PyInt(run.season)>>, <<"week", PyInt(2)>> >>)
          \in DOMAIN cache
    /\ numCalls["collect_team_game_stats"] = 3

----------------------------------------------------------------------------
(* C24: a fetch made under the key of an entry written at least CACHE_TTL  *)
(* seconds before finds the entry absent and goes to the network, and on   *)
(* HTTP 200 with a working store writes a fresh entry that lives one TTL   *)
(* from now; and a fetch answered from the cache is answered from an entry *)
(* younger than the TTL.                                                   *)
C24_PassiveExpiry ==
    /\ ( /\ nCalls >= 2
         /\ prev.writes = 1
         /\ last.key = prev.key
         /\ last.executedAt >= prev.returnedAt + Secs(CACHE_TTL) )
       => /\ ~last.hit
          /\ last.net = 1
          /\ (last.resp.kind = "http" /\ last.resp.status = 200 /\ ~last.writeErr)
                => /\ last.writes = 1
                   /\ cache[last.key].data = Dumps(last.resp.body)
                   /\ cache[last.key].expiresAt = last.returnedAt + Secs(3600)
    /\ last.hit =>
          last.executedAt - (cache[last.key].expiresAt - Secs(3600)) < Secs(3600)

\* the entry written at time 0 is gone at time 3600: the identical fetch
\* went to the network, got another payload and wrote it as a fresh entry
C24_Witness ==
    /\ nCalls = 2
    /\ prev.writes = 1 /\ prev.returnedAt = 0
    /\ last.key = prev.key
    /\ last.executedAt = Secs(3600)
    /\ ~last.readErr
    /\ ~last.hit /\ last.net = 1 /\ last.writes = 1
    /\ last.result # prev.result
    /\ cache[last.key].expiresAt = Secs(7200)

----------------------------------------------------------------------------
\* the canonical cache key of the requests the fetch specification makes
CanonicalKeyOf(call) ==
    IF call.f = "collect_teams_data"
    THEN "ncaa_cache:https://api.collegefootballdata.com/teams/fbs"
    ELSE "ncaa_cache:https://api.collegefootballdata.com/games/teams"
         \o "?week=1&year=2024"

(* C25: a fetch that misses the cache and gets HTTP 200 returns the parsed *)
(* payload whether or not its cache write succeeds, and changes the store  *)
(* in at most one entry: the one under the request's canonical key, which  *)
(* then holds the payload and expires 3600 seconds later, whatever the     *)
(* endpoint.                                                               *)
C25_SuccessPath ==
    [][(CallReturns /\ last'.outcome = "ok") =>
          /\ last'.result = last'.resp.body
          /\ last'.key = CanonicalKeyOf(last')
          /\ last'.writes = IF last'.writeErr THEN 0 ELSE 1
          /\ \A k \in (DOMAIN cache' \cup DOMAIN cache) \ {last'.key} :
                k \in DOMAIN cache /\ k \in DOMAIN cache' /\ cache'[k] = cache[k]
          /\ IF last'.writeErr
             THEN cache' = cache
             ELSE /\ last'.key \in DOMAIN cache'
                  /\ Loads(cache'[last'.key].data) = last'.resp.body
                  /\ cache'[last'.key].expiresAt = last'.returnedAt + Secs(3600)]_vars

\* two successful fetches with parameters: the first could not write its
\* entry and returned the payload, the second wrote it under the key
C25_Witness ==
    /\ nCalls = 2
    /\ prev.f = "collect_team_game_stats" /\ last.f = "collect_team_game_stats"
    /\ prev.outcome = "ok" /\ prev.writeErr /\ prev.writes = 0
    /\ prev.result = JList(<<GameA>>)
    /\ last.outcome = "ok" /\ last.writes = 1
    /\ DOMAIN cache = { "ncaa_cache:https://api.collegefootballdata.com/games/teams"
                        \o "?week=1&year=2024" }
    /\ cache[last.key].expiresAt = last.returnedAt + Secs(3600)

----------------------------------------------------------------------------
(* The sliding-interval specification: a burst of calls of one method (its *)
(* limiter is then the only counter the calls pass), the cache store       *)
(* unreachable so that every call reaches the network, and the times of    *)
(* the network calls of the last period kept in netLog.                    *)

\* collect calls in one run
MaxSlideCalls == 51

SlideMethods == { "collect_team_game_stats" }

SlideCollect ==
    /\ nCalls < MaxSlideCalls
    /\ Awaited
    /\ \E f \in SlideMethods :
          /\ CollectCall(f, WithConfig(RateArgs), TRUE)
          /\ netLog' = [netLog EXCEPT ![f] =
                           Logged(@, clock', Secs(LimitPeriod(f)),
                                  IF pending'.f = "" THEN 0 ELSE 1)]
    /\ UNCHANGED <<nTicks, keyVars, pipeVars>>

SlideInit == CollInit /\ KeyIdle /\ PipeIdle

SlideNext == SlideCollect \/ RateResume \/ RateTick

SlideSpec == SlideInit /\ [][SlideNext]_vars

\* the time of the latest network call to group g, 0 if there was none
LatestCall(g) ==
    LET times == UNION { DOMAIN netLog[f] : f \in { m \in Methods : Group(m) = g } }
    IN  IF times = {} THEN 0
        ELSE CHOOSE t \in times : \A u \in times : u <= t

RECURSIVE CallsSince(_, _, _)
\* network calls the methods ms made after time t
CallsSince(ms, g, t) ==
    IF ms = {} THEN 0
    ELSE LET f == CHOOSE m \in ms : TRUE
         IN  (IF Group(f) = g
              THEN SumOver(netLog[f], { u \in DOMAIN netLog[f] : u > t })
              ELSE 0)
             + CallsSince(ms \ {f}, g, t)

(* C26: in the interval of one budget period that ends with a group's      *)
(* latest network call, whether or not a rollover of the limiter's window  *)
(* lies inside it, the network calls made to the group do not exceed the   *)
(* group's maximum.                                                        *)
C26_SlidingWindow ==
    \A g \in Groups :
        CallsSince(Methods, g, LatestCall(g) - Secs(GroupPeriod(g))) <= GroupCalls(g)

----------------------------------------------------------------------------
\* the collect calls of a season so far, in the order they were made
CollectEntries(st) ==
    SelectSeq(st.log, LAMBDA e : e.op = "collect")

\* the pacing delay of the batches, in tenths of a second: 1 s after a stat
\* category and after a week of player game stats, 0.5 s after a week of
\* team game stats
PaceOf(method) ==
    CASE method = "collect_player_season_stats" -> 10
      [] method = "collect_team_game_stats"     -> 5
      [] method = "collect_player_game_stats"   -> 10
      [] OTHER                                  -> 0

(* C27: between two successive per-item collect calls of one batch (the    *)
(* stat categories, the weeks of team game stats, the weeks of player game *)
(* stats) the orchestrator has slept exactly the batch's one pacing delay, *)
(* whether the earlier call returned records, returned nothing or was      *)
(* served from the cache, and whether the later one goes to the provider   *)
(* or is served from the cache.                                            *)
C27_Pacing ==
    LET calls == CollectEntries(run)
    IN  /\ \A k \in 2..Len(calls) :
              (PaceOf(calls[k].method) > 0 /\ calls[k - 1].method = calls[k].method)
              => calls[k].slept - calls[k - 1].slept = PaceOf(calls[k].method)
        \* and on the clock: the later call was issued that delay after the
        \* earlier one returned
        /\ (prev.f # "" /\ prev.f = last.f /\ PaceOf(last.f) > 0)
           => last.issuedAt - prev.returnedAt = PaceOf(last.f)

\* A season collected an hour or less after an earlier run that had lost
\* week 3 of the weekly team batch: every call so far was served from the
\* cache but week 3, which went to the provider and returned nothing; week
\* 3 was issued half a second after week 2 had come from the cache, and
\* week 4, served from the cache, half a second after week 3 returned.
C27_Witness ==
    /\ run.entry = "collect_comprehensive_data"
    /\ OutcomeOf(run, "collect_team_game_stats", 2) = "ok"
    /\ OutcomeOf(run, "collect_team_game_stats", 3) = "fail"
    /\ prev.f = "collect_team_game_stats" /\ prev.args.week = 3
    /\ ~prev.hit /\ prev.net = 1
    /\ last.f = "collect_team_game_stats" /\ last.args.week = 4
    /\ last.hit /\ last.net = 0
    /\ last.out.raised = "" /\ Len(last.out.value.list) = 2
    /\ last.issuedAt - prev.returnedAt = 5
    /\ nCalls = 14
    /\ netCount["cfbd"] = 1
    /\ LET calls == CollectEntries(run)
       IN  /\ Len(calls) = 14
           /\ calls[13].slept - calls[12].slept = 5
           /\ calls[14].slept - calls[13].slept = 5

----------------------------------------------------------------------------
(* The group specification: calls to the stats provider and to the odds    *)
(* provider in one run, enough of them to use up the stats provider's      *)
(* budget, the cache store unreachable.                                    *)

\* collect calls in one run
MaxGroupCalls == 52

GroupMethods == { "collect_schedule", "collect_betting_lines" }

GroupResponses == { HttpResponse(200, JList(<<>>)) }

GroupCollect ==
    /\ nCalls < MaxGroupCalls
    /\ Awaited
    /\ \E f \in GroupMethods :
          CollectCall(f, WithConfig([season |-> 2024]), TRUE)
    /\ UNCHANGED <<nTicks, keyVars, obsVars, pipeVars>>

GroupResume ==
    /\ ~Awaited
    /\ \E resp \in GroupResponses : CollectResume(TRUE, resp)
    /\ UNCHANGED <<nTicks, keyVars, obsVars, pipeVars>>

GroupInit == CollInit /\ KeyIdle /\ PipeIdle

GroupNext == GroupCollect \/ GroupResume \/ RateTick

GroupSpec == GroupInit /\ [][GroupNext]_vars

\* the limiter state (call counts and windows) of the methods of group g
LimiterOf(nc, lr, g) ==
    [f \in { m \in Methods : Group(m) = g } |-> <<nc[f], lr[f]>>]

(* C28: a collect call to one endpoint group leaves the call counts and    *)
(* the windows of the other group's limiters as they were, and a call to   *)
(* a group whose own budget is not used up is not delayed, however many    *)
(* calls the other group has had.                                          *)
C28_IndependentBudgets ==
    [][nCalls' = nCalls + 1 =>
          LET call == IF pending'.f = "" THEN last' ELSE pending'
          IN  /\ \A g \in Groups \ {Group(call.f)} :
                    LimiterOf(numCalls', lastReset', g)
                        = LimiterOf(numCalls, lastReset, g)
              /\ (numCalls[call.f] < LimitCalls(call.f)
                    /\ clock < lastReset[call.f] + Secs(LimitPeriod(call.f)))
                 => call.slept = 0 /\ call.executedAt = call.issuedAt]_vars

\* the stats provider's method has used up its budget of 50 and its 51st
\* call has waited; then a call to the odds provider went out at once as
\* the first call of its own budget of 450
C28_Witness ==
    /\ numCalls["collect_schedule"] = 1
    /\ lastReset["collect_schedule"] = Secs(CFBD_PERIOD)
    /\ prev.f = "collect_schedule" /\ prev.slept > 0
    /\ last.f = "collect_betting_lines"
    /\ last.slept = 0
    /\ numCalls["collect_betting_lines"] = 1
    /\ lastReset["collect_betting_lines"] = 0
    /\ nCalls = CFBD_CALLS + 2

----------------------------------------------------------------------------
(* The identity specification: collect calls that differ in the            *)
(* credentials of the collector's config or in their arguments, against    *)
(* one working cache store, the upstream answering every request with 200. *)

\* collect calls in one run
MaxIdCalls == 2

IdMethods == { "collect_teams_data", "collect_betting_lines",
               "collect_player_game_stats" }

\* the arguments and config keys of a call
IdArgs(f) ==
    CASE f = "collect_teams_data" ->
            { [cfbd_api_key |-> k] : k \in { "key-a", "key-b" } }
      [] f = "collect_betting_lines" ->
            { [season |-> s, odds_api_key |-> k] :
                 s \in { 2023, 2024 }, k \in { "odds-a", "odds-b" } }
      [] f = "collect_player_game_stats" ->
            { [season |-> 2024, week |-> 0, team |-> "Alabama&week=1"],
              [season |-> 2024, week |-> 1, team |-> "Alabama"] }

IdResponses ==
    { HttpResponse(200, JList(<<GameA>>)), HttpResponse(200, JList(<<TeamB, TeamA>>)),
      HttpResponse(200, JList(<<GameOdds>>)) }

IdCollect ==
    /\ nCalls < MaxIdCalls
    /\ Awaited
    /\ \E f \in IdMethods : \E args \in IdArgs(f) :
          CollectCall(f, WithConfig(args), FALSE)
    /\ UNCHANGED <<nTicks, keyVars, obsVars, pipeVars>>

IdResume ==
    /\ ~Awaited
    /\ \E resp \in IdResponses : CollectResume(FALSE, resp)
    /\ UNCHANGED <<nTicks, keyVars, obsVars, pipeVars>>

IdInit == CollInit /\ KeyIdle /\ PipeIdle

IdNext == IdCollect \/ IdResume

IdSpec == IdInit /\ [][IdNext]_vars

\* the two most recent calls made the same request: URL and parameter set
SameRequest ==
    /\ last.req.url = prev.req.url
    /\ ItemSet(last.req.params) = ItemSet(prev.req.params)

\* the value of parameter name in the request of a call, "" if it has none
ParamOf(call, name) ==
    IF \E i \in 1..Len(call.req.params) : call.req.params[i][1] = name
    THEN LET i == CHOOSE j \in 1..Len(call.req.params) :
                      call.req.params[j][1] = name
         IN  Format(call.req.params[i][2])
    ELSE ""

(* C29: two fetches with the same URL and parameter set use the same cache *)
(* key whatever their request headers are, so the second one, made within  *)
(* the TTL of the entry the first one wrote, is answered from that entry;  *)
(* and two calls to the odds provider with different apiKey values use     *)
(* different keys.                                                         *)
C29_IdentityIsUrlAndParams ==
    nCalls >= 2 =>
       /\ (SameRequest /\ prev.outcome = "ok" /\ prev.writes = 1)
          => /\ last.key = prev.key
             /\ last.hit /\ last.net = 0
             /\ last.result = prev.result
       /\ ( /\ prev.f = "collect_betting_lines"
            /\ last.f = "collect_betting_lines"
            /\ ParamOf(prev, "apiKey") # ParamOf(last, "apiKey") )
          => last.key # prev.key

\* collect_teams_data under one bearer token, then under another one: the
\* second call sent nothing and returned what the first had cached
C29_Witness ==
    /\ nCalls = 2
    /\ prev.f = "collect_teams_data" /\ last.f = "collect_teams_data"
    /\ prev.req.headers = << <<"Authorization", "Bearer key-a">> >>
    /\ last.req.headers = << <<"Authorization", "Bearer key-b">> >>
    /\ prev.net = 1 /\ prev.writes = 1
    /\ last.hit /\ last.net = 0
    /\ last.key = prev.key
    /\ last.result = prev.result

(* C30: two requests that differ in their URL or in their set of           *)
(* parameter items have different cache keys, and the later one is not     *)
(* answered from the entry of the earlier one.                             *)
C30_KeysInjective ==
    (nCalls >= 2 /\ ~SameRequest) =>
        /\ last.key # prev.key
        /\ ~(last.hit /\ prev.writes = 1 /\ last.result = prev.result)

----------------------------------------------------------------------------
(* C31: two successive collect_betting_lines calls under the same config   *)
(* build the same request and cache key whatever their season arguments    *)
(* are; the second, made within the TTL of the entry the first one wrote,  *)
(* makes no network call and returns the records the first one returned.   *)
C31_BettingIgnoresSeason ==
    ( /\ nCalls >= 2
      /\ prev.f = "collect_betting_lines" /\ last.f = "collect_betting_lines"
      /\ prev.args.odds_api_key = last.args.odds_api_key )
    => /\ last.req = prev.req
       /\ last.key = prev.key
       /\ (prev.outcome = "ok" /\ prev.writes = 1)
          => /\ last.hit /\ last.net = 0
             /\ last.out = prev.out

\* betting lines for 2023, then for 2024: the second call was answered
\* from the entry of the first and returned its records
C31_Witness ==
    /\ nCalls = 2
    /\ prev.f = "collect_betting_lines" /\ last.f = "collect_betting_lines"
    /\ prev.args.season = 2023 /\ last.args.season = 2024
    /\ prev.args.odds_api_key = last.args.odds_api_key
    /\ prev.net = 1 /\ prev.writes = 1
    /\ last.hit /\ last.net = 0
    /\ last.out = prev.out
    /\ last.out.raised = "" /\ Len(last.out.value.list) = 2


----------------------------------------------------------------------------
(* The blocking specification: several tasks of one event loop calling     *)
(* decorated collect methods of both endpoint groups.  A call is taken in  *)
(* the steps the event loop sees: the wrappers and the method body up to   *)
(* its first suspension (the cache lookup and, on a miss, session.get),    *)
(* and the resumption when the response has arrived (setex, return).  A    *)
(* caller over its maximum is inside time.sleep of sleep_and_retry.        *)

\* calls in one run
MaxBlockCalls == 52
\* requests of one method in flight at a time
MaxInFlight == 1

BlockMethods == { "collect_player_season_stats", "collect_betting_lines" }

BlockArgs == WithConfig([season |-> 2024])

\* what the upstream answers to a request of method f
BlockBody(f) ==
    IF f = "collect_betting_lines" THEN JList(<<GameOdds>>) ELSE JList(<<GameA>>)

\* the callers' record after the granted call of method f ran its body to
\* the first suspension at time now
Entered(w, c, f, now) == EnteredWith(w, c, f, BlockArgs, now)

\* a task calls a decorated method
BlockStart ==
    /\ nCalls < MaxBlockCalls
    /\ CanArrive(wait)
    /\ \E f \in BlockMethods :
          /\ wait.inflight[f] < MaxInFlight
          /\ LET a == Limits(f, numCalls[f], lastReset[f], clock)
                 c == [id |-> wait.arrived + 1, f |-> f, since |-> clock,
                       wakeAt |-> clock]
                 w == Attempted([wait EXCEPT !.arrived = c.id], c, a, clock)
             IN  /\ numCalls' = [numCalls EXCEPT ![f] = a.numCalls]
                 /\ lastReset' = [lastReset EXCEPT ![f] = a.lastReset]
                 /\ wait' = IF a.raised THEN w ELSE Entered(w, cache, f, clock)
    /\ nCalls' = nCalls + 1
    /\ UNCHANGED <<clock, cache, netCount, winStart, issued, issuedWin,
                   prev, last, nTicks, pending, keyVars, obsVars, pipeVars>>

\* time.sleep(period_remaining) returns and the caller tries again
BlockWake ==
    /\ \E c \in wait.waiting :
          /\ \A d \in wait.waiting : c.wakeAt <= d.wakeAt
          /\ LET now == IF c.wakeAt > clock THEN c.wakeAt ELSE clock
                 a   == Limits(c.f, numCalls[c.f], lastReset[c.f], now)
                 w   == Attempted(wait, c, a, now)
             IN  /\ clock' = now
                 /\ numCalls' = [numCalls EXCEPT ![c.f] = a.numCalls]
                 /\ lastReset' = [lastReset EXCEPT ![c.f] = a.lastReset]
                 /\ wait' = IF a.raised THEN w ELSE Entered(w, cache, c.f, now)
    /\ UNCHANGED <<cache, netCount, winStart, issued, issuedWin, prev, last,
                   nCalls, nTicks, pending, keyVars, obsVars, pipeVars>>

\* the event loop resumes a task whose response has arrived: status 200,
\* response.json(), setex, return
BlockComplete ==
    /\ CanArrive(wait)
    /\ \E f \in BlockMethods :
          /\ wait.inflight[f] > 0
          /\ LET req == Request(f, BlockArgs)
             IN  cache' = RedisSetex(cache, CacheKey(req.url, req.params),
                                     CACHE_TTL, Dumps(BlockBody(f)), clock)
          /\ wait' = [wait EXCEPT !.inflight = [@ EXCEPT ![f] = @ - 1],
                                  !.done = @ + 1]
    /\ UNCHANGED <<clock, numCalls, lastReset, netCount, winStart, issued,
                   issuedWin, prev, last, nCalls, nTicks, pending,
                   keyVars, obsVars, pipeVars>>

BlockInit == CollInit /\ KeyIdle /\ PipeIdle

BlockNext == BlockStart \/ BlockWake \/ BlockComplete

BlockSpec == BlockInit /\ [][BlockNext]_vars

\* caller c is still inside time.sleep in callers' record w
StillWaiting(w, c) == \E d \in w.waiting : d.id = c.id

(* C32: a rate-limit wait blocks the whole worker: in a step taken while a *)
(* caller waits for its budget window, no other task calls a method, no    *)
(* request in flight completes (for either endpoint group), nothing is     *)
(* written to the cache, and a cache read, a network call or a completion  *)
(* happens only as the waiting caller's own, once its sleep has ended.     *)
C32_WaitBlocksWorker ==
    [][ \A c \in wait.waiting :
          /\ wait'.arrived = wait.arrived
          /\ cache' = cache
          /\ \A f \in Methods : wait'.inflight[f] >= wait.inflight[f]
          /\ \A f \in Methods \ {c.f} : wait'.inflight[f] = wait.inflight[f]
          /\ wait'.done - wait.done <= 1
          /\ wait'.reads - wait.reads <= 1
          /\ wait'.sent - wait.sent <= 1
          /\ StillWaiting(wait', c)
                => /\ wait'.done = wait.done
                   /\ wait'.reads = wait.reads
                   /\ wait'.sent = wait.sent
      ]_vars

\* the 51st call of the season stats method sleeps in its limiter while a
\* request of the odds group is in flight and no response has been stored
\* for it
C32_Witness ==
    /\ \E c \in wait.waiting :
          c.f = "collect_player_season_stats" /\ c.wakeAt = Secs(CFBD_PERIOD)
    /\ wait.inflight["collect_betting_lines"] = 1
    /\ wait.arrived = CFBD_CALLS + 2
    /\ wait.done = CFBD_CALLS
    /\ LET req == Request("collect_betting_lines", BlockArgs)
       IN  CacheKey(req.url, req.params) \notin DOMAIN cache

====
